---- MODULE Spec2Model ----
(***************************************************************************)
(* Model of the quotation generator (services/generate_quotation): the     *)
(* Record Normalizer (csv_reader.py), the Structure Validator              *)
(* (json_processor.py) and the Calculation Engine (pdf_generator.py).      *)
(*                                                                         *)
(* Text.  A Python str is a sequence of one-character strings; a character *)
(* outside ASCII is written by its code point ("U+6708").  None is the     *)
(* one-element sequence <<"<None>">>, which is no str of the model.  A     *)
(* dict is a function whose DOMAIN is its set of keys.                     *)
(*                                                                         *)
(* Numbers.  A Python float is [k, m, e]: k = "fin" is the decimal         *)
(* m / 10^e in lowest form, k = "inf" is m * infinity (m = 1 or -1),       *)
(* k = "nan" is not-a-number.  Arithmetic on them is exact decimal         *)
(* arithmetic with the IEEE rules for inf and nan; binary rounding error   *)
(* is not modelled.                                                        *)
(***************************************************************************)
EXTENDS Integers, Sequences, FiniteSets, TLC

VARIABLES
    pc,         \* position of the run of the specification in use
    today,      \* what datetime.now() gives, as yyyy-mm-dd
    invoice,    \* argument of prepare_invoice_data / calculate_totals
    prepared,   \* what prepare_invoice_data returned
    totals,     \* what calculate_totals returned
    raised,     \* the exception that left the call, or "none"
    csvFile,    \* the CSV file: [header, rows]
    invoices,   \* what read_csv_to_json returned
    data,       \* argument of validate_json_structure
    data0,      \* the argument of the call as it was before the call
    valid,      \* what validate_json_structure returned
    entry,      \* the entry point of main.py that runs
    jsonFile,   \* the JSON file on disk: the text json.dump wrote
    env,        \* the template directory and the output path, as found
    info,       \* what get_json_info returned
    html,       \* the markup handed to HTML(string=...)
    output,     \* the PDF file written
    result,     \* what the entry point returned
    users,      \* table "user"
    customers,  \* table "customer"
    contracts,  \* table "contract"
    response    \* the answer to the last request

mainVars == <<entry, jsonFile, env, info, html, output, result>>
backendVars == <<users, customers, contracts, response>>
vars == <<pc, today, invoice, prepared, totals, raised, csvFile, invoices,
          data, data0, valid, mainVars, backendVars>>

(***************************************************************************)
(* Bounds of the model.                                                    *)
(***************************************************************************)
MaxItems == 2       \* items of one record
MaxRows == 2        \* data rows of one CSV file
MaxRecords == 3     \* records of one JSON list

(***************************************************************************)
(* Characters and str methods.                                             *)
(***************************************************************************)
None == <<"<None>">>
Digits == {"0", "1", "2", "3", "4", "5", "6", "7", "8", "9"}
Yue == "U+6708"     \* the character "month"
Ge == "U+500B"      \* the measure word in "N months"
SanLian == <<"U+4E09", "U+806F">>      \* three-part invoice
ErLian == <<"U+4E8C", "U+806F">>       \* two-part invoice
YiBaoHan == <<"U+5DF2", "U+5305", "U+542B">>   \* "already included"

IsSpace(c) == c = " "
IsDigit(c) == c \in Digits
DigitVal(c) ==
    CASE c = "0" -> 0 [] c = "1" -> 1 [] c = "2" -> 2 [] c = "3" -> 3
      [] c = "4" -> 4 [] c = "5" -> 5 [] c = "6" -> 6 [] c = "7" -> 7
      [] c = "8" -> 8 [] c = "9" -> 9
DigitChar(d) ==
    CASE d = 0 -> "0" [] d = 1 -> "1" [] d = 2 -> "2" [] d = 3 -> "3"
      [] d = 4 -> "4" [] d = 5 -> "5" [] d = 6 -> "6" [] d = 7 -> "7"
      [] d = 8 -> "8" [] d = 9 -> "9"

Front(s) == SubSeq(s, 1, Len(s) - 1)
Last(s) == s[Len(s)]

RECURSIVE LStrip(_)
LStrip(s) == IF s # <<>> /\ IsSpace(Head(s)) THEN LStrip(Tail(s)) ELSE s

RECURSIVE RStrip(_)
RStrip(s) == IF s # <<>> /\ IsSpace(Last(s)) THEN RStrip(Front(s)) ELSE s

\* str.strip()
Strip(s) == RStrip(LStrip(s))

\* str(x) of a str or None
Str(v) == IF v = None THEN <<"N", "o", "n", "e">> ELSE v

\* bool(x) of a str or None
Truthy(v) == v # None /\ v # <<>>

\* dict.get(key, default)
Get(d, key, default) == IF key \in DOMAIN d THEN d[key] ELSE default

\* the dict without the keys
Without(d, keys) == [key \in DOMAIN d \ keys |-> d[key]]

\* The value of the key "items": a JSON array of items, or a JSON value that
\* is no array (a string, a number, null, an object).
JList(elems) == [isList |-> TRUE, elems |-> elems]
NotAList == [isList |-> FALSE, elems |-> <<>>]

\* invoice_data.get("items", []), for a record whose items are an array
ItemsOf(invoice_data) == Get(invoice_data, "items", JList(<<>>)).elems

(***************************************************************************)
(* float: values, parsing, arithmetic, formatting.                         *)
(***************************************************************************)
RECURSIVE Pow10(_)
Pow10(n) == IF n = 0 THEN 1 ELSE 10 * Pow10(n - 1)

RECURSIVE Norm(_, _)
Norm(m, e) ==
    IF e > 0 /\ m % 10 = 0 THEN Norm(m \div 10, e - 1)
    ELSE [k |-> "fin", m |-> m, e |-> e]

Fin(m, e) == Norm(m, e)
Zero == Fin(0, 0)
Inf(sign) == [k |-> "inf", m |-> sign, e |-> 0]
NaN == [k |-> "nan", m |-> 0, e |-> 0]
ValueError == [k |-> "ValueError", m |-> 0, e |-> 0]

RECURSIVE DigitsVal(_)
DigitsVal(s) ==
    IF s = <<>> THEN 0 ELSE 10 * DigitsVal(Front(s)) + DigitVal(Last(s))

\* the digits of s with the decimal point (if any) taken out
NoDot(s) == SelectSeq(s, IsDigit)
DotCount(s) == Len(SelectSeq(s, LAMBDA c : c = "."))
RECURSIVE AfterDot(_)
AfterDot(s) ==
    IF s = <<>> THEN 0
    ELSE IF Head(s) = "." THEN Len(s) - 1 ELSE AfterDot(Tail(s))

\* float(s) of an unsigned body: "inf", "infinity", "nan", or digits with at
\* most one point and at least one digit (exponents and underscores are
\* outside the alphabet of the model)
FloatBody(t, sign) ==
    IF t \in {<<"i", "n", "f">>, <<"i", "n", "f", "i", "n", "i", "t", "y">>}
    THEN Inf(sign)
    ELSE IF t = <<"n", "a", "n">> THEN NaN
    ELSE IF /\ \A i \in 1..Len(t) : IsDigit(t[i]) \/ t[i] = "."
            /\ DotCount(t) <= 1
            /\ NoDot(t) # <<>>
    THEN Fin(sign * DigitsVal(NoDot(t)), IF DotCount(t) = 1 THEN AfterDot(t) ELSE 0)
    ELSE ValueError

\* float(s) of a str: surrounding whitespace and one sign are accepted
PyFloat(s) ==
    LET t == Strip(s)
    IN  IF t = <<>> THEN ValueError
        ELSE IF Head(t) = "-" THEN FloatBody(Tail(t), -1)
        ELSE IF Head(t) = "+" THEN FloatBody(Tail(t), 1)
        ELSE FloatBody(t, 1)

Max(a, b) == IF a >= b THEN a ELSE b
Sign(m) == IF m > 0 THEN 1 ELSE IF m < 0 THEN -1 ELSE 0

\* a + b
NumAdd(a, b) ==
    IF a.k = "nan" \/ b.k = "nan" THEN NaN
    ELSE IF a.k = "inf" /\ b.k = "inf" THEN (IF a.m = b.m THEN a ELSE NaN)
    ELSE IF a.k = "inf" THEN a
    ELSE IF b.k = "inf" THEN b
    ELSE LET e == Max(a.e, b.e)
         IN  Fin(a.m * Pow10(e - a.e) + b.m * Pow10(e - b.e), e)

\* a * b
NumMul(a, b) ==
    IF a.k = "nan" \/ b.k = "nan" THEN NaN
    ELSE IF a.k = "inf" \/ b.k = "inf"
    THEN (IF Sign(a.m) * Sign(b.m) = 0 THEN NaN ELSE Inf(Sign(a.m) * Sign(b.m)))
    ELSE Fin(a.m * b.m, a.e + b.e)

\* a > 0 (False for nan)
Positive(a) == a.k \in {"fin", "inf"} /\ a.m > 0

\* int(a) of a finite float: truncation toward zero
Trunc(a) ==
    IF a.m >= 0 THEN a.m \div Pow10(a.e) ELSE -((-a.m) \div Pow10(a.e))

\* round-half-even of a finite non-negative m / 10^e, as format ".0f" rounds
RoundHalfEven(m, e) ==
    LET q == m \div Pow10(e)
        r == m % Pow10(e)
    IN  IF 2 * r > Pow10(e) THEN q + 1
        ELSE IF 2 * r < Pow10(e) THEN q
        ELSE IF q % 2 = 0 THEN q ELSE q + 1

RECURSIVE IntToChars(_)
IntToChars(n) ==
    IF n < 10 THEN <<DigitChar(n)>>
    ELSE IntToChars(n \div 10) \o <<DigitChar(n % 10)>>

\* the "," option of format: groups of three digits
RECURSIVE Grouped(_)
Grouped(n) ==
    IF n < 1000 THEN IntToChars(n)
    ELSE Grouped(n \div 1000) \o <<",">> \o
         <<DigitChar((n % 1000) \div 100), DigitChar((n % 100) \div 10),
           DigitChar(n % 10)>>

\* str(n) of an int
IntStr(n) == IF n < 0 THEN <<"-">> \o IntToChars(-n) ELSE IntToChars(n)

(***************************************************************************)
(* Calculation Engine: pdf_generator.py, class HTMLPDFGenerator.           *)
(***************************************************************************)
OverflowError == "OverflowError"
NoException == "none"

\* format_currency(value) of a number: f"{value:,.0f}"
FormatCurrency(v) ==
    IF v.k = "nan" THEN <<"n", "a", "n">>
    ELSE IF v.k = "inf"
    THEN (IF v.m < 0 THEN <<"-">> ELSE <<>>) \o <<"i", "n", "f">>
    ELSE (IF v.m < 0 THEN <<"-">> ELSE <<>>) \o
         Grouped(RoundHalfEven(IF v.m < 0 THEN -v.m ELSE v.m, v.e))

\* the tax rate of a three-part invoice, 0.05
TaxRate == Fin(5, 2)

\* one turn of the loop of calculate_totals: the amount an item adds to
\* subtotal; an amount float() rejects is skipped by "continue"
ItemContribution(item) ==
    LET amount == Get(item, "amount", None)
    IN  IF ~Truthy(amount) THEN Zero
        ELSE IF PyFloat(amount) = ValueError THEN Zero
        ELSE PyFloat(amount)

\* mutant: the first amount float() rejects ends the loop
RECURSIVE SubtotalBreak(_)
SubtotalBreak(items) ==
    IF items = <<>> THEN Zero
    ELSE LET amount == Get(Head(items), "amount", None)
         IN  IF Truthy(amount) /\ PyFloat(amount) = ValueError THEN Zero
             ELSE NumAdd(ItemContribution(Head(items)), SubtotalBreak(Tail(items)))

\* the loop of calculate_totals
RECURSIVE Subtotal(_)
Subtotal(items) ==
    IF items = <<>> THEN Zero
    ELSE NumAdd(Subtotal(Front(items)), ItemContribution(Last(items)))

\* mutant: every invoice that names a type is taxed
TotalsTaxAnyType(items, invoice_type) ==
    LET subtotal == Subtotal(items)
        tax == IF Truthy(invoice_type) THEN NumMul(subtotal, TaxRate) ELSE Zero
    IN  [subtotal |-> subtotal, tax |-> tax, total |-> NumAdd(subtotal, tax)]

\* mutant: the tax is computed and not added to the total
TotalsTaxNotAdded(items, invoice_type) ==
    LET subtotal == Subtotal(items)
    IN  [subtotal |-> subtotal,
         tax |-> IF invoice_type = SanLian THEN NumMul(subtotal, TaxRate) ELSE Zero,
         total |-> subtotal]

\* calculate_totals(items, invoice_type)
CalculateTotals(items, invoice_type) ==
    LET subtotal == Subtotal(items)
    IN  IF invoice_type = SanLian
        THEN [subtotal |-> subtotal,
              tax |-> NumMul(subtotal, TaxRate),
              total |-> NumAdd(subtotal, NumMul(subtotal, TaxRate))]
        ELSE [subtotal |-> subtotal, tax |-> Zero, total |-> subtotal]

\* mutant: the quantity is parsed whole, its unit text included
ItemAmountNoFilter(quantity, unit_price) ==
    LET qty_num == PyFloat(Strip(Str(quantity)))
        price_num == PyFloat(Strip(Str(unit_price)))
    IN  IF qty_num = ValueError \/ price_num = ValueError THEN Zero
        ELSE NumMul(qty_num, price_num)

\* calculate_item_amount(quantity, unit_price)
CalculateItemAmount(quantity, unit_price) ==
    LET qty_str == Strip(Str(quantity))
        qty_num == PyFloat(SelectSeq(qty_str, LAMBDA x : IsDigit(x) \/ x = "."))
        price_str == Strip(Str(unit_price))
        price_num == PyFloat(price_str)
    IN  IF qty_num = ValueError \/ price_num = ValueError THEN Zero
        ELSE NumMul(qty_num, price_num)

\* mutant: every amount is derived again
AmountAlwaysDerived(item) == TRUE

\* the test of line 145: the amount is derived
AmountIsEmpty(item) ==
    ~Truthy(Get(item, "amount", None)) \/ Get(item, "amount", None) = <<>>

\* the calculated amount of an item whose amount is derived
CalculatedAmount(item) ==
    CalculateItemAmount(Get(item, "quantity", <<>>), Get(item, "unit_price", <<>>))

\* int(calculated_amount) raises OverflowError on an infinity
ItemRaises(item) ==
    AmountIsEmpty(item) /\ CalculatedAmount(item) = Inf(1)

\* re.fullmatch(r"\s*(\d+)\s*U+6708\s*", s): the digits, or <<>> for no match
MonthDigits(s) ==
    LET t == Strip(s)
        u == IF t = <<>> THEN <<>> ELSE RStrip(Front(t))
    IN  IF /\ Len(t) >= 2
           /\ Last(t) = Yue
           /\ u # <<>>
           /\ \A i \in 1..Len(u) : IsDigit(u[i])
        THEN u ELSE <<>>

\* the mutation of C24: the quantity is displayed as it is
QuantityVerbatim(item) == Str(Get(item, "quantity", <<>>))

DisplayQuantity(item) ==
    LET qty_display == Str(Get(item, "quantity", <<>>))
    IN  IF MonthDigits(qty_display) # <<>>
        THEN MonthDigits(qty_display) \o <<Ge, Yue>>
        ELSE qty_display

\* one turn of the loop of prepare_invoice_data, for an item that does not raise
ProcessItem(item) ==
    LET amount ==
            IF AmountIsEmpty(item)
            THEN (IF Positive(CalculatedAmount(item))
                  THEN IntStr(Trunc(CalculatedAmount(item))) ELSE <<>>)
            ELSE item["amount"]
    IN  [key \in DOMAIN item \cup {"amount", "display_quantity"} |->
            IF key = "amount" THEN amount
            ELSE IF key = "display_quantity" THEN DisplayQuantity(item)
            ELSE item[key]]

ProcessItems(items) == [i \in 1..Len(items) |-> ProcessItem(items[i])]

\* mutant: the annotation is attached to every untaxed invoice
TaxNoteUntaxed(invoice_type) == IF invoice_type # SanLian THEN YiBaoHan ELSE <<>>

\* tax_note of the prepared record
TaxNote(invoice_type) == IF invoice_type = ErLian THEN YiBaoHan ELSE <<>>

\* prepare_invoice_data(invoice_data): the exception that leaves it
PrepareRaises(invoice_data) ==
    IF \E i \in 1..Len(ItemsOf(invoice_data)) :
            ItemRaises(ItemsOf(invoice_data)[i])
    THEN OverflowError ELSE NoException

\* mutant: the date of the record is kept when it has one
InvoiceDateOfRecord(invoice_data, current_date) ==
    Get(invoice_data, "invoice_date", current_date)

\* invoice_date = self.get_current_date() (line 166)
InvoiceDate(invoice_data, current_date) == current_date

\* mutant: processed_item = item, the writes reach the item of the input
ItemAliased(item) == ProcessItem(item)

\* processed_item = item.copy() (line 142): the writes of lines 150 and 157
\* go to the copy; this is the item of the input after them
ItemAfterPrepare(item) == item

\* invoice_data after prepare_invoice_data(invoice_data) ran or raised
InputAfterPrepare(invoice_data) ==
    IF "items" \in DOMAIN invoice_data
    THEN [invoice_data EXCEPT !["items"] =
            [@ EXCEPT !.elems = [i \in 1..Len(@) |-> ItemAfterPrepare(@[i])]]]
    ELSE invoice_data

\* prepare_invoice_data(invoice_data): what it returns when nothing is raised
PrepareInvoiceData(invoice_data, current_date) ==
    LET processed_items == ProcessItems(ItemsOf(invoice_data))
        invoice_type == Get(invoice_data, "invoice_type", <<>>)
        t == CalculateTotals(processed_items, invoice_type)
    IN  [customer_name |-> Get(invoice_data, "customer_name", <<>>),
         contact_person |-> Get(invoice_data, "contact_person", <<>>),
         phone |-> Get(invoice_data, "phone", <<>>),
         invoice_title |-> Get(invoice_data, "invoice_title", <<>>),
         invoice_number |-> Get(invoice_data, "invoice_number", <<>>),
         invoice_date |-> InvoiceDate(invoice_data, current_date),
         invoice_issue_date |-> Get(invoice_data, "invoice_issue_date", <<>>),
         tax_id |-> Get(invoice_data, "tax_id", <<>>),
         invoice_type |-> Get(invoice_data, "invoice_type", <<>>),
         notes |-> Get(invoice_data, "notes", <<>>),
         item_list |-> processed_items,
         totals |-> [subtotal |-> FormatCurrency(t.subtotal),
                     tax |-> FormatCurrency(t.tax),
                     total |-> FormatCurrency(t.total)],
         tax_note |-> TaxNote(invoice_type)]

(***************************************************************************)
(* Record Normalizer: csv_reader.py, class CSVReader.                      *)
(***************************************************************************)
\* the column labels of the CSV header
KeyCustomerName == "U+5BA2 U+6236 U+540D U+7A31"
KeyContactPerson == "U+806F U+7D61 U+4EBA"
KeyPhone == "U+96FB U+8A71"
KeyTaxId == "U+5BA2 U+6236 U+7D71 U+7DE8"
KeyInvoiceNumber == "U+767C U+7968 U+865F U+78BC"
KeyInvoiceDate == "U+767C U+7968 U+65E5 U+671F"
KeyInvoiceType == "U+767C U+7968"
KeyNotes == "U+5099 U+8A3B"

\* f"<item>{i}"; "<quantity>" and "<unit price>" for slot 1, with the slot
\* number appended for slots 2 to 4
ItemNameKey(i) == "U+54C1 U+9805 " \o DigitChar(i)
QuantityKey(i) == IF i = 1 THEN "U+6578 U+91CF" ELSE "U+6578 U+91CF " \o DigitChar(i)
UnitPriceKey(i) == IF i = 1 THEN "U+55AE U+50F9" ELSE "U+55AE U+50F9 " \o DigitChar(i)

Slots == 1..4

\* The dict csv.DictReader builds of one row: the cells under the header's
\* names, and restval (None) under the names a short row has no cell for.
\* Cells beyond the header go under restkey, which no row.get() asks for.
DictRow(header, cells) ==
    [key \in {header[j] : j \in 1..Len(header)} |->
        LET j == CHOOSE n \in 1..Len(header) : header[n] = key
        IN  IF j <= Len(cells) THEN cells[j] ELSE None]

\* x or ""
OrEmpty(v) == IF Truthy(v) THEN v ELSE <<>>

\* mutant: the item name is tested as it stands in the cell
SlotHasNameUntrimmed(row, i) == OrEmpty(Get(row, ItemNameKey(i), <<>>)) # <<>>

\* if item_name:
SlotHasName(row, i) == Strip(OrEmpty(Get(row, ItemNameKey(i), <<>>))) # <<>>

SlotItem(row, i) ==
    [name |-> Strip(OrEmpty(Get(row, ItemNameKey(i), <<>>))),
     quantity |-> Strip(OrEmpty(Get(row, QuantityKey(i), <<>>))),
     unit_price |-> Strip(OrEmpty(Get(row, UnitPriceKey(i), <<>>))),
     amount |-> <<>>]

\* for i in range(1, 5): the items of the slots i..4
RECURSIVE SlotItems(_, _)
SlotItems(row, i) ==
    IF i \notin Slots THEN <<>>
    ELSE (IF SlotHasName(row, i) THEN <<SlotItem(row, i)>> ELSE <<>>)
         \o SlotItems(row, i + 1)

\* the body of "for row in reader"
ReadRow(row) ==
    [customer_name |-> Get(row, KeyCustomerName, <<>>),
     contact_person |-> Get(row, KeyContactPerson, <<>>),
     phone |-> Get(row, KeyPhone, <<>>),
     tax_id |-> Get(row, KeyTaxId, <<>>),
     invoice_number |-> Get(row, KeyInvoiceNumber, <<>>),
     invoice_date |-> Get(row, KeyInvoiceDate, <<>>),
     invoice_type |-> Get(row, KeyInvoiceType, <<>>),
     notes |-> Get(row, KeyNotes, <<>>),
     items |-> JList(SlotItems(row, 1))]

\* the rows csv.DictReader yields: it passes over the blank lines
DataRows(file) == SelectSeq(file.rows, LAMBDA cells : cells # <<>>)

\* read_csv_to_json(csv_file_path), for a file that can be opened
ReadCsvToJson(file) ==
    [r \in 1..Len(DataRows(file)) |->
        ReadRow(DictRow(file.header, DataRows(file)[r]))]

(***************************************************************************)
(* Structure Validator: json_processor.py, class JSONProcessor.  A JSON     *)
(* document is [isList, records]: an array of records, or one record       *)
(* (isList = FALSE and records = <<record>>).                              *)
(***************************************************************************)
required_fields ==
    <<"customer_name", "contact_person", "phone", "tax_id", "invoice_number",
      "invoice_date", "invoice_type", "notes", "items">>
item_fields == <<"name", "quantity", "unit_price", "amount">>

\* for field in fields: if field not in d: return False
RECURSIVE AllIn(_, _)
AllIn(fields, d) ==
    IF fields = <<>> THEN TRUE
    ELSE IF Head(fields) \notin DOMAIN d THEN FALSE
    ELSE AllIn(Tail(fields), d)

\* mutant: the items are not looked into
ValidateSingleNoItemCheck(inv) ==
    AllIn(required_fields, inv) /\ inv["items"].isList

\* _validate_single_invoice(invoice)
ValidateSingleInvoice(inv) ==
    IF ~AllIn(required_fields, inv) THEN FALSE
    ELSE IF ~inv["items"].isList THEN FALSE
    ELSE \A i \in 1..Len(inv["items"].elems) : AllIn(item_fields, inv["items"].elems[i])

\* for invoice in data: if not self._validate_single_invoice(invoice):
\* return False -- the result, and the number of records looked at
RECURSIVE ValidateRecords(_, _)
ValidateRecords(records, examined) ==
    IF records = <<>> THEN [result |-> TRUE, examined |-> examined]
    ELSE IF ~ValidateSingleInvoice(Head(records))
    THEN [result |-> FALSE, examined |-> examined + 1]
    ELSE ValidateRecords(Tail(records), examined + 1)

\* mutant: only the first record of a list is looked at
ValidateFirstOnly(doc) ==
    [result |-> doc.records = <<>> \/ ValidateSingleInvoice(doc.records[1]),
     examined |-> IF doc.records = <<>> THEN 0 ELSE 1]

\* validate_json_structure(data)
ValidateJsonStructure(doc) ==
    IF doc.isList THEN ValidateRecords(doc.records, 0)
    ELSE [result |-> ValidateSingleInvoice(doc.records[1]), examined |-> 1]

(***************************************************************************)
(* Inputs of the Calculation Engine.                                       *)
(***************************************************************************)
Dates == {<<"2", "0", "2", "6", "-", "0", "1", "-", "1", "5">>,
          <<"2", "0", "2", "6", "-", "0", "1", "-", "1", "6">>}

AmountPool == {<<"2", "5", "0">>, <<"2", ".", "5">>, <<"x">>,
               <<"i", "n", "f">>, <<"n", "a", "n">>}

\* <<quantity, unit_price>> of the items whose amount is derived
DerivedPool ==
    {<<<<"2">>, <<"1", "0", "0">>>>,              \* 200
     <<<<"1", ".", "5">>, <<"0", ".", "5">>>>,    \* 0.75
     <<<<"3", " ", Yue>>, <<"1", "0", "0">>>>,    \* a quantity with its unit
     <<<<"3", " ", Yue>>, <<"1", "0", "0", "0">>>>,
     <<<<" ", "1", "2", Yue>>, <<"1", "0", "0">>>>,    \* no space before the unit
     <<<<"3", " ", Yue, "x">>, <<"1", "0", "0">>>>,    \* text after the unit
     <<<<"x">>, <<"1", "0", "0">>>>,              \* no number in the quantity
     <<<<"2">>, <<"x">>>>,                        \* no number in the unit price
     <<<<"0">>, <<"1", "0", "0">>>>,              \* 0
     <<<<"2">>, <<"-", "5">>>>,                   \* -10
     <<<<"2">>, <<"i", "n", "f">>>>}              \* infinity

Item(quantity, unit_price, amount) ==
    [name |-> <<"A">>, quantity |-> quantity, unit_price |-> unit_price,
     amount |-> amount]

ItemPool ==
    \* the amount is empty and is derived
    {Item(qp[1], qp[2], <<>>) : qp \in DerivedPool}
    \* the amount, or the quantity and the unit price, are missing
    \cup {[name |-> <<"A">>, quantity |-> <<"2">>, unit_price |-> <<"1", "0", "0">>],
          [name |-> <<"A">>, amount |-> <<>>]}
    \* the amount is given
    \cup {Item(<<"2">>, <<"1", "0", "0">>, a) : a \in AmountPool}

RECURSIVE SeqsUpTo(_, _)
SeqsUpTo(S, n) ==
    IF n = 0 THEN {<<>>}
    ELSE SeqsUpTo(S, n - 1) \cup
         {Append(q, x) : q \in {r \in SeqsUpTo(S, n - 1) : Len(r) = n - 1}, x \in S}

\* the records of at most n items
InvoiceInputs(n) ==
    LET lists == SeqsUpTo(ItemPool, n)
    IN  {[customer_name |-> <<"C">>, invoice_type |-> ty, items |-> JList(items)] :
            ty \in {SanLian, ErLian, <<>>}, items \in lists}
        \cup {[customer_name |-> <<"C">>, items |-> JList(items)] : items \in lists}
        \* records with and without the two dates
        \cup {Without([customer_name |-> <<"C">>, invoice_date |-> d,
                       invoice_issue_date |-> i, items |-> JList(<<>>)],
                      (IF d = None THEN {"invoice_date"} ELSE {}) \cup
                      (IF i = None THEN {"invoice_issue_date"} ELSE {})) :
                d \in Dates \cup {None, <<"2", "0", "2", "4">>},
                i \in {None, <<>>, <<"2", "0", "2", "3">>}}

NoResult == [none |-> TRUE]
\* no markup built: markup is a sequence of parts
NoMarkup == <<[markup |-> "none"]>>

\* the variables of the components that do not run
MainIdle ==
    /\ entry = NoResult
    /\ jsonFile = NoResult
    /\ env = NoResult
    /\ info = NoResult
    /\ html = NoMarkup
    /\ output = NoResult
    /\ result = NoResult
BackendIdle ==
    /\ users = NoResult
    /\ customers = NoResult
    /\ contracts = NoResult
    /\ response = NoResult

(***************************************************************************)
(* SpecCalc: one record is prepared for rendering, or its totals are       *)
(* calculated.                                                             *)
(***************************************************************************)
InitCalc ==
    /\ pc = "input"
    /\ today \in Dates
    /\ invoice \in InvoiceInputs(MaxItems)
    /\ prepared = NoResult
    /\ totals = NoResult
    /\ raised = NoException
    /\ csvFile = NoResult
    /\ invoices = <<>>
    /\ data = NoResult
    /\ data0 = invoice
    /\ valid = NoResult
    /\ MainIdle
    /\ BackendIdle

\* prepared = self.prepare_invoice_data(invoice)
Prepare ==
    /\ pc = "input"
    /\ IF PrepareRaises(invoice) = NoException
       THEN /\ prepared' = PrepareInvoiceData(invoice, today)
            /\ pc' = "prepared"
            /\ UNCHANGED raised
       ELSE /\ raised' = PrepareRaises(invoice)
            /\ pc' = "raised"
            /\ UNCHANGED prepared
    /\ invoice' = InputAfterPrepare(invoice)
    /\ UNCHANGED <<today, totals, csvFile, invoices, data, data0, valid,
                   mainVars, backendVars>>

\* totals = self.calculate_totals(invoice["items"], invoice_type)
Totals ==
    /\ pc = "input"
    /\ totals' = CalculateTotals(ItemsOf(invoice),
                                 Get(invoice, "invoice_type", <<>>))
    /\ pc' = "totalled"
    /\ UNCHANGED <<today, invoice, prepared, raised, csvFile, invoices, data,
                   data0, valid, mainVars, backendVars>>

\* get_invoice_info(invoice_data)
GetInvoiceInfo(invoice_data) ==
    LET t == CalculateTotals(ItemsOf(invoice_data),
                             Get(invoice_data, "invoice_type", <<>>))
    IN  [customer_name |-> Get(invoice_data, "customer_name", <<>>),
         item_count |-> Len(ItemsOf(invoice_data)),
         subtotal |-> t.subtotal,
         tax |-> t.tax,
         total |-> t.total]

\* info = self.get_invoice_info(invoice)
InvoiceInfo ==
    /\ pc = "input"
    /\ info' = GetInvoiceInfo(invoice)
    /\ pc' = "informed"
    /\ UNCHANGED <<today, invoice, prepared, totals, raised, csvFile, invoices,
                   data, data0, valid, entry, jsonFile, env, html, output,
                   result, backendVars>>

NextCalc == Prepare \/ Totals \/ InvoiceInfo

SpecCalc == InitCalc /\ [][NextCalc]_vars

(***************************************************************************)
(* Properties of the Calculation Engine, checked under SpecCalc.           *)
(***************************************************************************)
HasAmount(item) == "amount" \in DOMAIN item /\ item["amount"] \notin {<<>>, None}

\* the numbers the derivation reads: the digits and points of the quantity,
\* and the unit price as a plain decimal
QtyNumber(item) ==
    PyFloat(SelectSeq(Strip(Str(Get(item, "quantity", <<>>))),
                      LAMBDA c : IsDigit(c) \/ c = "."))
PriceNumber(item) == PyFloat(Strip(Str(Get(item, "unit_price", <<>>))))
BothFinite(item) == QtyNumber(item).k = "fin" /\ PriceNumber(item).k = "fin"
NonNumeric(item) == QtyNumber(item) = ValueError \/ PriceNumber(item) = ValueError
ProductM(item) == QtyNumber(item).m * PriceNumber(item).m
ProductE(item) == QtyNumber(item).e + PriceNumber(item).e

\* round(m / 10^e), half to even
RoundInt(m, e) == IF m < 0 THEN -RoundHalfEven(-m, e) ELSE RoundHalfEven(m, e)

\* C1: every input item whose amount is present and non-empty keeps that
\* amount verbatim in the prepared item_list.
C1_AmountVerbatim ==
    pc = "prepared" =>
        /\ Len(prepared.item_list) = Len(ItemsOf(invoice))
        /\ \A i \in 1..Len(ItemsOf(invoice)) :
              HasAmount(ItemsOf(invoice)[i]) =>
                  prepared.item_list[i]["amount"] = ItemsOf(invoice)[i]["amount"]

\* C1 witness: a record was prepared that has an item whose given amount
\* (250) is not its quantity times its unit price (2 x 100).
C1_Witness ==
    /\ pc = "prepared"
    /\ \E i \in 1..Len(ItemsOf(invoice)) :
          /\ HasAmount(ItemsOf(invoice)[i])
          /\ ItemsOf(invoice)[i]["amount"] = <<"2", "5", "0">>
          /\ BothFinite(ItemsOf(invoice)[i])
          /\ ProductM(ItemsOf(invoice)[i]) = 200

\* C2 as stated: a derived amount is round(quantity x unit_price) written as
\* a non-negative integer (read for the products that are not negative); with
\* a non-numeric operand it is "" and adds 0 to the subtotal.
C2_RoundedAmount ==
    pc = "prepared" =>
        \A i \in 1..Len(ItemsOf(invoice)) :
            LET item == ItemsOf(invoice)[i]
            IN  ~HasAmount(item) =>
                  /\ BothFinite(item) /\ ProductM(item) >= 0 =>
                        prepared.item_list[i]["amount"] =
                            IntStr(RoundInt(ProductM(item), ProductE(item)))
                  /\ NonNumeric(item) =>
                        /\ prepared.item_list[i]["amount"] = <<>>
                        /\ ItemContribution(prepared.item_list[i]) = Zero

\* C2 amended: a derived amount whose finite product is positive is the
\* product truncated to an integer; a product that is zero or negative gives
\* ""; a non-numeric operand gives "" and adds 0 to the subtotal.
C2_TruncatedAmount ==
    pc = "prepared" =>
        \A i \in 1..Len(ItemsOf(invoice)) :
            LET item == ItemsOf(invoice)[i]
            IN  ~HasAmount(item) =>
                  /\ BothFinite(item) /\ ProductM(item) > 0 =>
                        prepared.item_list[i]["amount"] =
                            IntStr(ProductM(item) \div Pow10(ProductE(item)))
                  /\ BothFinite(item) /\ ProductM(item) <= 0 =>
                        prepared.item_list[i]["amount"] = <<>>
                  /\ NonNumeric(item) =>
                        /\ prepared.item_list[i]["amount"] = <<>>
                        /\ ItemContribution(prepared.item_list[i]) = Zero

\* C2 witness: a record was prepared whose first item has the product 0.75
\* (written "0") and whose second item has a quantity with no number in it.
C2_Witness ==
    /\ pc = "prepared"
    /\ Len(ItemsOf(invoice)) = 2
    /\ ~HasAmount(ItemsOf(invoice)[1])
    /\ BothFinite(ItemsOf(invoice)[1])
    /\ ProductM(ItemsOf(invoice)[1]) = 75 /\ ProductE(ItemsOf(invoice)[1]) = 2
    /\ prepared.item_list[1]["amount"] = <<"0">>
    /\ ~HasAmount(ItemsOf(invoice)[2])
    /\ NonNumeric(ItemsOf(invoice)[2])

\* a * num / den = b, for finite a and b
RatioOf(a, num, den, b) ==
    a.k = "fin" /\ b.k = "fin" /\
    a.m * num * Pow10(Max(a.e, b.e) - a.e) = b.m * den * Pow10(Max(a.e, b.e) - b.e)

\* a + b = c, for finite a, b and c
SumOf(a, b, c) ==
    LET e == Max(Max(a.e, b.e), c.e)
    IN  a.k = "fin" /\ b.k = "fin" /\ c.k = "fin" /\
        a.m * Pow10(e - a.e) + b.m * Pow10(e - b.e) = c.m * Pow10(e - c.e)

\* C3: for a three-part invoice calculate_totals returns tax = subtotal x 5%
\* and total = subtotal + tax = subtotal x 1.05 (an infinite or undefined
\* subtotal gives the same tax and total).
C3_ThreePartTax ==
    pc = "totalled" /\ Get(invoice, "invoice_type", <<>>) = SanLian =>
        IF totals.subtotal.k = "fin"
        THEN /\ RatioOf(totals.subtotal, 5, 100, totals.tax)
             /\ SumOf(totals.subtotal, totals.tax, totals.total)
             /\ RatioOf(totals.subtotal, 105, 100, totals.total)
        ELSE totals.tax = totals.subtotal /\ totals.total = totals.subtotal

\* C3 witness: totals of a three-part invoice with the subtotal 252.5, whose
\* tax 12.625 is no integer.
C3_Witness ==
    /\ pc = "totalled"
    /\ Get(invoice, "invoice_type", <<>>) = SanLian
    /\ totals.subtotal = Fin(2525, 1)
    /\ totals.tax = Fin(12625, 3)

\* the sum of the amounts float() accepts, from the last item to the first
RECURSIVE NumericSum(_)
NumericSum(items) ==
    IF items = <<>> THEN Zero
    ELSE LET amount == Get(Head(items), "amount", None)
         IN  IF amount \notin {<<>>, None} /\ PyFloat(amount) # ValueError
             THEN NumAdd(PyFloat(amount), NumericSum(Tail(items)))
             ELSE NumericSum(Tail(items))

\* C4: a two-part invoice is prepared with tax 0, total = subtotal and the
\* annotation "already included"; calculate_totals returns tax 0 and
\* total = subtotal for it.
C4_TwoPartNoTax ==
    /\ pc = "prepared" /\ Get(invoice, "invoice_type", <<>>) = ErLian =>
          /\ prepared.totals.tax = <<"0">>
          /\ prepared.totals.total = prepared.totals.subtotal
          /\ prepared.totals.subtotal = FormatCurrency(NumericSum(prepared.item_list))
          /\ prepared.tax_note = YiBaoHan
    /\ pc = "totalled" /\ Get(invoice, "invoice_type", <<>>) = ErLian =>
          totals.tax = Zero /\ totals.total = totals.subtotal

\* C4 witness: a two-part invoice was prepared with a subtotal that is not 0.
C4_Witness ==
    /\ pc = "prepared"
    /\ Get(invoice, "invoice_type", <<>>) = ErLian
    /\ prepared.totals.subtotal = <<"4", "5", "0">>

\* C5: an invoice of any other type, the empty type and no type included, is
\* prepared with tax 0, total = subtotal and no annotation.
C5_OtherTypeNoTax ==
    /\ pc = "prepared" /\ Get(invoice, "invoice_type", <<>>) \notin {SanLian, ErLian} =>
          /\ prepared.totals.tax = <<"0">>
          /\ prepared.totals.total = prepared.totals.subtotal
          /\ prepared.totals.subtotal = FormatCurrency(NumericSum(prepared.item_list))
          /\ prepared.tax_note = <<>>
    /\ pc = "totalled" /\ Get(invoice, "invoice_type", <<>>) \notin {SanLian, ErLian} =>
          totals.tax = Zero /\ totals.total = totals.subtotal

\* C5 witness: an invoice with no invoice_type key was prepared with a
\* subtotal that is not 0.
C5_Witness ==
    /\ pc = "prepared"
    /\ "invoice_type" \notin DOMAIN invoice
    /\ prepared.totals.subtotal = <<"2", "0", "0">>
    /\ prepared.tax_note = <<>>

\* C6: the subtotal calculate_totals returns is the sum of exactly the
\* amounts that parse as numbers, wherever they stand in the list.
C6_SubtotalSkipsNonNumeric ==
    pc = "totalled" => totals.subtotal = NumericSum(ItemsOf(invoice))

\* C6 witness: totals of a list whose first amount is not a number and whose
\* second amount is.
C6_Witness ==
    /\ pc = "totalled"
    /\ Len(ItemsOf(invoice)) = 2
    /\ Get(ItemsOf(invoice)[1], "amount", None) = <<"x">>
    /\ Get(ItemsOf(invoice)[2], "amount", None) = <<"2", "5", "0">>
    /\ totals.subtotal = Fin(250, 0)

\* C7 as stated: whatever the strings in amount, quantity and unit_price,
\* the calculation raises nothing.
C7_NeverRaises == raised = NoException

\* C14: whatever invoice_date the input record carries, or none, the
\* prepared record has invoice_date = the current date get_current_date
\* returns, and invoice_issue_date = the value of the input, the empty
\* string when the input has none.
C14_DatesOfPreparedRecord ==
    pc = "prepared" =>
        /\ prepared.invoice_date = today
        /\ prepared.invoice_issue_date =
              IF "invoice_issue_date" \in DOMAIN invoice
              THEN invoice["invoice_issue_date"] ELSE <<>>

\* C14 witness: a record dated 2024 with an issue date was prepared under
\* the current date.
C14_Witness ==
    /\ pc = "prepared"
    /\ "invoice_date" \in DOMAIN invoice
    /\ invoice["invoice_date"] \notin Dates
    /\ Get(invoice, "invoice_issue_date", <<>>) # <<>>
    /\ prepared.invoice_date = today
    /\ prepared.invoice_issue_date = invoice["invoice_issue_date"]

\* C15: prepare_invoice_data leaves its input as it was, every top-level
\* field and every field of every item (an empty amount stays empty and no
\* display_quantity appears); the derived fields are in the prepared record.
C15_InputUnchanged ==
    pc \in {"prepared", "raised"} =>
        /\ invoice = data0
        /\ DOMAIN invoice = DOMAIN data0
        /\ \A key \in DOMAIN invoice : invoice[key] = data0[key]
        /\ \A i \in 1..Len(ItemsOf(invoice)) :
              /\ DOMAIN ItemsOf(invoice)[i] = DOMAIN ItemsOf(data0)[i]
              /\ \A key \in DOMAIN ItemsOf(invoice)[i] :
                    ItemsOf(invoice)[i][key] = ItemsOf(data0)[i][key]
        /\ pc = "prepared" =>
              \A i \in 1..Len(prepared.item_list) :
                 {"amount", "display_quantity"} \subseteq DOMAIN prepared.item_list[i]

\* C15 witness: a record was prepared whose first item has an empty amount;
\* the prepared item has the amount 200 and a display quantity, the input
\* item has neither.
C15_Witness ==
    /\ pc = "prepared"
    /\ Len(ItemsOf(invoice)) >= 1
    /\ Get(ItemsOf(invoice)[1], "amount", None) = <<>>
    /\ "display_quantity" \notin DOMAIN ItemsOf(invoice)[1]
    /\ prepared.item_list[1]["amount"] = <<"2", "0", "0">>
    /\ "display_quantity" \in DOMAIN prepared.item_list[1]

\* the digits d of a quantity text made of spaces, d, spaces, the month
\* character and spaces; the empty set for any other text
MonthForms(q) ==
    {d \in UNION {{SubSeq(q, a + 1, a + k) : k \in 1..(Len(q) - a)} : a \in 0..Len(q)} :
        /\ \A n \in 1..Len(d) : d[n] \in Digits
        /\ \E a, b, c \in 0..Len(q) :
              q = [n \in 1..a |-> " "] \o d \o [n \in 1..b |-> " "]
                    \o <<Yue>> \o [n \in 1..c |-> " "]}

TopKeys == <<KeyCustomerName, KeyContactPerson, KeyPhone, KeyTaxId,
             KeyInvoiceNumber, KeyInvoiceDate, KeyInvoiceType, KeyNotes>>
SlotKeys(i) == <<ItemNameKey(i), QuantityKey(i), UnitPriceKey(i)>>

\* every column; the required columns only; a header without the contact,
\* the notes and the columns of slots 2 and 4
FullHeader == TopKeys \o SlotKeys(1) \o SlotKeys(2) \o SlotKeys(3) \o SlotKeys(4)
RequiredHeader == TopKeys \o SlotKeys(1)
PartialHeader ==
    <<KeyCustomerName, KeyPhone, KeyTaxId, KeyInvoiceNumber, KeyInvoiceDate,
      KeyInvoiceType>> \o SlotKeys(1) \o SlotKeys(3)
HeaderPool == {FullHeader, RequiredHeader, PartialHeader}

SlotLetter(i) == CASE i = 1 -> "A" [] i = 2 -> "B" [] i = 3 -> "C" [] i = 4 -> "D"
NoCut == 99

\* What the person who filled in a row meant: the text of the top-level
\* cells, the name of each slot, whether quantities and prices are filled
\* in, and after how many cells the line ends.
RowIntents ==
    \* every set of named slots, names padded with blanks, all numbers given
    {[top |-> <<"T">>,
      names |-> [i \in Slots |-> IF i \in named THEN <<" ", SlotLetter(i), " ">> ELSE <<>>],
      filled |-> TRUE, cut |-> NoCut] : named \in SUBSET Slots}
    \cup
    {\* names of blanks only
     [top |-> <<"T">>, names |-> <<<<" ">>, <<" ", "B">>, <<>>, <<" ", " ">>>>,
      filled |-> TRUE, cut |-> NoCut],
     \* names without quantities and prices
     [top |-> <<"T">>, names |-> <<<<"A">>, <<"B">>, <<"C">>, <<"D">>>>,
      filled |-> FALSE, cut |-> NoCut],
     \* empty top-level cells
     [top |-> <<>>, names |-> <<<<"A">>, <<>>, <<>>, <<>>>>,
      filled |-> TRUE, cut |-> NoCut],
     \* lines that end after 2 and after 9 cells, and a blank line
     [top |-> <<"T">>, names |-> <<<<"A">>, <<"B">>, <<"C">>, <<"D">>>>,
      filled |-> TRUE, cut |-> 2],
     [top |-> <<"T">>, names |-> <<<<"A">>, <<"B">>, <<"C">>, <<"D">>>>,
      filled |-> TRUE, cut |-> 9],
     [top |-> <<"T">>, names |-> <<<<>>, <<>>, <<>>, <<>>>>,
      filled |-> TRUE, cut |-> 0]}

CellFor(key, intent) ==
    IF \E i \in Slots : key = ItemNameKey(i)
    THEN intent.names[CHOOSE i \in Slots : key = ItemNameKey(i)]
    ELSE IF \E i \in Slots : key = QuantityKey(i)
    THEN (IF intent.filled THEN <<" ", "2">> ELSE <<>>)
    ELSE IF \E i \in Slots : key = UnitPriceKey(i)
    THEN (IF intent.filled THEN <<"1", "0", "0", " ">> ELSE <<>>)
    ELSE intent.top

\* the cells of the line of a row under a header
Cells(header, intent) ==
    SubSeq([j \in 1..Len(header) |-> CellFor(header[j], intent)], 1,
           IF intent.cut < Len(header) THEN intent.cut ELSE Len(header))

\* the files of at most n lines written with the given intents
CsvFilesFrom(pool, n) ==
    {[header |-> header, rows |-> [r \in 1..Len(intents) |-> Cells(header, intents[r])]] :
        header \in HeaderPool, intents \in SeqsUpTo(pool, n)}

\* the files of at most n lines
CsvFiles(n) == CsvFilesFrom(RowIntents, n)

(***************************************************************************)
(* SpecCsv: one CSV file is read.                                          *)
(***************************************************************************)
InitCsv ==
    /\ pc = "file"
    /\ today \in Dates
    /\ invoice = NoResult
    /\ prepared = NoResult
    /\ totals = NoResult
    /\ raised = NoException
    /\ csvFile \in CsvFiles(MaxRows)
    /\ invoices = <<>>
    /\ data = NoResult
    /\ data0 = NoResult
    /\ valid = NoResult
    /\ MainIdle
    /\ BackendIdle

\* invoices = self.csv_reader.read_csv_to_json(csv_file_path)
ReadCsv ==
    /\ pc = "file"
    /\ invoices' = ReadCsvToJson(csvFile)
    /\ pc' = "read"
    /\ UNCHANGED <<today, invoice, prepared, totals, raised, csvFile, data,
                   data0, valid, mainVars, backendVars>>

NextCsv == ReadCsv

SpecCsv == InitCsv /\ [][NextCsv]_vars

(***************************************************************************)
(* Properties of the Record Normalizer, checked under SpecCsv.             *)
(***************************************************************************)
\* the column of a label in the header, 0 when the header lacks it
ColumnOf(header, key) ==
    IF \E j \in 1..Len(header) : header[j] = key
    THEN CHOOSE j \in 1..Len(header) : header[j] = key
    ELSE 0

\* the column of the label is in the header and the line has a cell for it
HasCell(header, cells, key) ==
    ColumnOf(header, key) # 0 /\ ColumnOf(header, key) <= Len(cells)

\* the text a line gives for a label, empty when it gives none
CellText(header, cells, key) ==
    IF HasCell(header, cells, key) THEN cells[ColumnOf(header, key)] ELSE <<>>

\* the lines of the file that are not blank
Lines(file) == SelectSeq(file.rows, LAMBDA cells : Len(cells) > 0)

\* the slots of a line whose name is not empty after trimming
NamedSlots(header, cells) ==
    {i \in Slots : Strip(CellText(header, cells, ItemNameKey(i))) # <<>>}

\* C8: the items of every record are exactly the slots whose name is not
\* empty after trimming, in ascending slot order, each with the trimmed
\* name, quantity and unit price of its slot and an empty amount.
C8_NamedSlotsInOrder ==
    pc = "read" =>
        /\ Len(invoices) = Len(Lines(csvFile))
        /\ \A r \in 1..Len(invoices) :
              LET cells == Lines(csvFile)[r]
                  named == NamedSlots(csvFile.header, cells)
                  items == invoices[r].items.elems
              IN  /\ invoices[r].items.isList
                  /\ Len(items) = Cardinality(named)
                  /\ \A i \in named :
                        LET j == Cardinality({n \in named : n <= i})
                        IN  /\ items[j].name = Strip(CellText(csvFile.header, cells, ItemNameKey(i)))
                            /\ items[j].quantity = Strip(CellText(csvFile.header, cells, QuantityKey(i)))
                            /\ items[j].unit_price = Strip(CellText(csvFile.header, cells, UnitPriceKey(i)))
                            /\ items[j].amount = <<>>

\* C8 witness: a line with slots 1 and 3 named and slots 2 and 4 unnamed but
\* with their quantity filled in gave exactly the items A and C, in that
\* order.
C8_Witness ==
    /\ pc = "read"
    /\ csvFile.header = FullHeader
    /\ Len(invoices) >= 1
    /\ NamedSlots(csvFile.header, Lines(csvFile)[1]) = {1, 3}
    /\ CellText(csvFile.header, Lines(csvFile)[1], QuantityKey(2)) # <<>>
    /\ Len(invoices[1].items.elems) = 2
    /\ invoices[1].items.elems[1].name = <<"A">>
    /\ invoices[1].items.elems[2].name = <<"C">>

TopFields == {"customer_name", "contact_person", "phone", "tax_id",
              "invoice_number", "invoice_date", "invoice_type", "notes"}
LabelOf(field) ==
    CASE field = "customer_name" -> KeyCustomerName
      [] field = "contact_person" -> KeyContactPerson
      [] field = "phone" -> KeyPhone
      [] field = "tax_id" -> KeyTaxId
      [] field = "invoice_number" -> KeyInvoiceNumber
      [] field = "invoice_date" -> KeyInvoiceDate
      [] field = "invoice_type" -> KeyInvoiceType
      [] field = "notes" -> KeyNotes

\* C9 as stated: every field of every record that the line gives no cell
\* for (its column is not in the header, or the line is short) is the empty
\* string, and no field is null.
C9_AbsentFieldsEmpty ==
    pc = "read" =>
        \A r \in 1..Len(invoices) :
            LET cells == Lines(csvFile)[r]
            IN  /\ \A field \in TopFields :
                      /\ invoices[r][field] # None
                      /\ ~HasCell(csvFile.header, cells, LabelOf(field)) =>
                            invoices[r][field] = <<>>
                /\ \A j \in 1..Len(invoices[r].items.elems) :
                      \A field \in {"name", "quantity", "unit_price", "amount"} :
                          invoices[r].items.elems[j][field] # None

\* the loops of get_json_info over the items, in order: total_amount; an
\* amount float() rejects is skipped by "continue"
RECURSIVE TotalAmount(_)
TotalAmount(items) ==
    IF items = <<>> THEN Zero
    ELSE LET amount == Get(Last(items), "amount", None)
             added == IF ~Truthy(amount) THEN Zero
                      ELSE IF PyFloat(amount) = ValueError THEN Zero
                      ELSE PyFloat(amount)
         IN  NumAdd(TotalAmount(Front(items)), added)

\* the items of the records, in order
RECURSIVE AllItems(_)
AllItems(records) ==
    IF records = <<>> THEN <<>>
    ELSE AllItems(Front(records)) \o ItemsOf(Last(records))

\* mutant: the aggregate follows the type of the first record
InfoTaxByType(doc) ==
    LET t == CalculateTotals(AllItems(doc.records),
                             IF doc.records = <<>> THEN <<>>
                             ELSE Get(doc.records[1], "invoice_type", <<>>))
    IN  [type |-> "multiple_invoices",
         invoice_count |-> Len(doc.records),
         total_items |-> Len(AllItems(doc.records)),
         total_amount |-> t.subtotal,
         tax_amount |-> t.tax,
         final_total |-> t.total]

\* get_json_info(data), for data whose items are lists of dicts
GetJsonInfo(doc) ==
    LET total_amount == TotalAmount(AllItems(doc.records))
    IN  IF doc.isList
        THEN [type |-> "multiple_invoices",
              invoice_count |-> Len(doc.records),
              total_items |-> Len(AllItems(doc.records)),
              total_amount |-> total_amount,
              tax_amount |-> NumMul(total_amount, Fin(5, 2)),
              final_total |-> NumMul(total_amount, Fin(105, 2))]
        ELSE [type |-> "single_invoice",
              customer_name |-> Get(doc.records[1], "customer_name", <<>>),
              item_count |-> Len(AllItems(doc.records)),
              total_amount |-> total_amount,
              tax_amount |-> NumMul(total_amount, Fin(5, 2)),
              final_total |-> NumMul(total_amount, Fin(105, 2))]

(***************************************************************************)
(* Inputs of the Structure Validator: JSON documents.                      *)
(***************************************************************************)
FullItem == Item(<<"2">>, <<"1", "0", "0">>, <<"2", "0", "0">>)

FullRecord(items) ==
    [customer_name |-> <<"C">>, contact_person |-> <<"P">>, phone |-> <<"0">>,
     tax_id |-> <<"1">>, invoice_number |-> <<"N">>, invoice_date |-> <<"D">>,
     invoice_type |-> ErLian, notes |-> <<>>, items |-> items]

RecordPool ==
    {\* well formed: no item, one item, two items and the optional field
     FullRecord(JList(<<>>)),
     FullRecord(JList(<<FullItem>>)),
     [key \in DOMAIN FullRecord(NotAList) \cup {"invoice_issue_date"} |->
        IF key = "invoice_issue_date" THEN <<"D">>
        ELSE FullRecord(JList(<<FullItem, FullItem>>))[key]],
     \* well formed, with an item whose derived amount is infinite
     FullRecord(JList(<<Item(<<"2">>, <<"i", "n", "f">>, <<>>)>>)),
     \* a required field is missing
     Without(FullRecord(JList(<<FullItem>>)), {"notes"}),
     Without(FullRecord(JList(<<FullItem>>)), {"items"}),
     Without(FullRecord(JList(<<FullItem>>)), {"customer_name", "notes"}),
     Without(FullRecord(JList(<<>>)), DOMAIN FullRecord(NotAList)),
     \* the items are no array
     FullRecord(NotAList),
     \* an item lacks a field
     FullRecord(JList(<<FullItem, Without(FullItem, {"amount"})>>)),
     FullRecord(JList(<<Without(FullItem, {"name"})>>))}

\* well-formed records that differ in invoice_type and in the amounts of
\* their items
AmountRecord(invoice_type, items) ==
    [FullRecord(JList(items)) EXCEPT !["invoice_type"] = invoice_type]
AmountItem(amount) == Item(<<"2">>, <<"1", "0", "0">>, amount)
AmountRecordPool ==
    {AmountRecord(SanLian, <<AmountItem(<<"1", "0", "0", "0">>)>>),
     AmountRecord(ErLian, <<AmountItem(<<"2", "0", "0", "0">>)>>),
     AmountRecord(<<>>, <<AmountItem(<<"5", "0", "0">>)>>),
     AmountRecord(SanLian, <<AmountItem(<<"5", "0", "0">>), AmountItem(<<"5", "0", "0">>)>>),
     AmountRecord(ErLian, <<AmountItem(<<"x">>), AmountItem(<<"2", ".", "5">>)>>),
     AmountRecord(SanLian, <<AmountItem(<<>>), AmountItem(None)>>),
     AmountRecord(ErLian, <<>>),
     AmountRecord(<<>>, <<AmountItem(<<"i", "n", "f">>)>>)}

\* one well-formed record of each invoice_type: amounts derived and taxed,
\* given and tax included, given and without invoice
TypedRecordPool ==
    {AmountRecord(SanLian, <<AmountItem(<<>>), AmountItem(None)>>),
     AmountRecord(ErLian, <<AmountItem(<<"2", "0", "0", "0">>)>>),
     AmountRecord(<<>>, <<AmountItem(<<"5", "0", "0">>)>>)}

\* one record, or a list of at most n records, drawn from pool
DocumentsFrom(pool, n) ==
    {[isList |-> FALSE, records |-> <<rec>>] : rec \in pool}
    \cup {[isList |-> TRUE, records |-> recs] : recs \in SeqsUpTo(pool, n)}

\* one record, or a list of at most n records
Documents(n) == DocumentsFrom(RecordPool, n)

(***************************************************************************)
(* SpecValidate: one loaded JSON document is validated.                    *)
(***************************************************************************)
InitValidate ==
    /\ pc = "loaded"
    /\ today \in Dates
    /\ invoice = NoResult
    /\ prepared = NoResult
    /\ totals = NoResult
    /\ raised = NoException
    /\ csvFile = NoResult
    /\ invoices = <<>>
    /\ data \in Documents(MaxRecords) \cup DocumentsFrom(AmountRecordPool, MaxRecords)
    /\ data0 = data
    /\ valid = NoResult
    /\ MainIdle
    /\ BackendIdle

\* self.json_processor.validate_json_structure(data)
Validate ==
    /\ pc = "loaded"
    /\ valid' = ValidateJsonStructure(data)
    /\ pc' = "validated"
    /\ UNCHANGED <<today, invoice, prepared, totals, raised, csvFile, invoices,
                   data, data0, mainVars, backendVars>>

\* json_info = self.json_processor.get_json_info(data), of valid data
Aggregate ==
    /\ pc = "validated"
    /\ valid.result
    /\ info' = GetJsonInfo(data)
    /\ pc' = "informed"
    /\ UNCHANGED <<today, invoice, prepared, totals, raised, csvFile, invoices,
                   data, data0, valid, entry, jsonFile, env, html, output,
                   result, backendVars>>

NextValidate == Validate \/ Aggregate

SpecValidate == InitValidate /\ [][NextValidate]_vars

(***************************************************************************)
(* Properties of the Structure Validator, checked under SpecValidate.      *)
(***************************************************************************)
RequiredSet == {"customer_name", "contact_person", "phone", "tax_id",
                "invoice_number", "invoice_date", "invoice_type", "notes", "items"}
ItemFieldSet == {"name", "quantity", "unit_price", "amount"}

\* all nine top-level fields are present and items is a list whose every
\* element has the four item fields
WellFormed(rec) ==
    /\ RequiredSet \subseteq DOMAIN rec
    /\ rec["items"].isList
    /\ \A i \in 1..Len(rec["items"].elems) : ItemFieldSet \subseteq DOMAIN rec["items"].elems[i]

\* C10: validate_json_structure returns True exactly when the record, or
\* every record of the list, is well formed; a list fails at its first
\* record that is not, and the data is left as it was.
C10_ValidIffWellFormed ==
    pc = "validated" =>
        /\ Len(required_fields) = 9
        /\ valid.result = (\A r \in 1..Len(data.records) : WellFormed(data.records[r]))
        /\ data.isList /\ ~valid.result =>
              /\ ~WellFormed(data.records[valid.examined])
              /\ \A r \in 1..(valid.examined - 1) : WellFormed(data.records[r])
        /\ data = data0

\* C10 witness: a list whose first record is well formed and whose second
\* record has an item without amount was rejected at the second record.
C10_Witness ==
    /\ pc = "validated"
    /\ data.isList
    /\ Len(data.records) = 2
    /\ WellFormed(data.records[1])
    /\ RequiredSet \subseteq DOMAIN data.records[2]
    /\ ~WellFormed(data.records[2])
    /\ valid = [result |-> FALSE, examined |-> 2]

\* the number of items, and the sum of the numeric amounts, of the records
RECURSIVE BatchCount(_)
BatchCount(records) ==
    IF records = <<>> THEN 0
    ELSE Len(ItemsOf(Head(records))) + BatchCount(Tail(records))
RECURSIVE BatchSum(_)
BatchSum(records) ==
    IF records = <<>> THEN Zero
    ELSE NumAdd(NumericSum(ItemsOf(Head(records))), BatchSum(Tail(records)))

\* C13: for a list of records get_json_info returns total_items = the number
\* of items of all records, total_amount = the sum of the numeric amounts of
\* all items, tax_amount = total_amount x 5% and final_total = total_amount x
\* 1.05, whatever the invoice_type of each record.
C13_BatchAggregate ==
    pc = "informed" /\ data.isList =>
        /\ info.invoice_count = Len(data.records)
        /\ info.total_items = BatchCount(data.records)
        /\ info.total_amount = BatchSum(data.records)
        /\ IF info.total_amount.k = "fin"
           THEN /\ RatioOf(info.total_amount, 5, 100, info.tax_amount)
                /\ RatioOf(info.total_amount, 105, 100, info.final_total)
           ELSE /\ info.tax_amount = info.total_amount
                /\ info.final_total = info.total_amount

\* C13 witness: three records of three invoice types with the subtotals
\* 1000, 2000 and 500 gave 3500, 175 and 3675.
C13_Witness ==
    /\ pc = "informed"
    /\ data.isList
    /\ Len(data.records) = 3
    /\ data.records[1]["invoice_type"] = SanLian
    /\ data.records[2]["invoice_type"] = ErLian
    /\ data.records[3]["invoice_type"] = <<>>
    /\ NumericSum(ItemsOf(data.records[1])) = Fin(1000, 0)
    /\ NumericSum(ItemsOf(data.records[2])) = Fin(2000, 0)
    /\ NumericSum(ItemsOf(data.records[3])) = Fin(500, 0)
    /\ info.total_amount = Fin(3500, 0)
    /\ info.tax_amount = Fin(175, 0)
    /\ info.final_total = Fin(3675, 0)

(***************************************************************************)
(* The format check of the Record Normalizer, the JSON file and the        *)
(* aggregate of the Structure Validator's module (json_processor.py).      *)
(***************************************************************************)
\* validate_csv_format(csv_file_path): every required column is in the
\* header line; no data row is read
ValidateCsvFormat(file) ==
    LET required == <<KeyCustomerName, KeyContactPerson, KeyPhone, KeyTaxId,
                      KeyInvoiceNumber, KeyInvoiceDate, KeyInvoiceType, KeyNotes,
                      ItemNameKey(1), QuantityKey(1), UnitPriceKey(1)>>
    IN  \A f \in 1..Len(required) :
            \E j \in 1..Len(file.header) : file.header[j] = required[f]

\* a list of records as a document
ListOf(records) == [isList |-> TRUE, records |-> records]

\* json.dump(data, f, ensure_ascii=False, indent=2): the JSON text, as the
\* tree of its values.  None is written null, a str a string, a list an
\* array, a dict an object; items that are no list stand for any other value.
JsonDump(doc) ==
    LET text(v) == IF v = None THEN [json |-> "null"]
                   ELSE [json |-> "string", chars |-> v]
        item(d) == [json |-> "object",
                    members |-> [key \in DOMAIN d |-> text(d[key])]]
        items(v) == IF v.isList
                    THEN [json |-> "array",
                          elems |-> [i \in 1..Len(v.elems) |-> item(v.elems[i])]]
                    ELSE [json |-> "number"]
        record(d) == [json |-> "object",
                      members |-> [key \in DOMAIN d |->
                          IF key = "items" THEN items(d[key]) ELSE text(d[key])]]
    IN  IF doc.isList
        THEN [json |-> "array",
              elems |-> [i \in 1..Len(doc.records) |-> record(doc.records[i])]]
        ELSE record(doc.records[1])

\* mutant: null is read as the empty string
JsonLoadNullEmpty(file) ==
    LET text(t) == IF t.json = "null" THEN <<>> ELSE t.chars
        item(o) == [key \in DOMAIN o.members |-> text(o.members[key])]
        items(a) == IF a.json = "array"
                    THEN JList([i \in 1..Len(a.elems) |-> item(a.elems[i])])
                    ELSE NotAList
        record(o) == [key \in DOMAIN o.members |->
                        IF key = "items" THEN items(o.members[key])
                        ELSE text(o.members[key])]
    IN  IF file.json = "array"
        THEN ListOf([i \in 1..Len(file.elems) |-> record(file.elems[i])])
        ELSE [isList |-> FALSE, records |-> <<record(file)>>]

\* json.load(f): null is read None, a string a str, an array a list, an
\* object a dict
JsonLoad(file) ==
    LET text(t) == IF t.json = "null" THEN None ELSE t.chars
        item(o) == [key \in DOMAIN o.members |-> text(o.members[key])]
        items(a) == IF a.json = "array"
                    THEN JList([i \in 1..Len(a.elems) |-> item(a.elems[i])])
                    ELSE NotAList
        record(o) == [key \in DOMAIN o.members |->
                        IF key = "items" THEN items(o.members[key])
                        ELSE text(o.members[key])]
    IN  IF file.json = "array"
        THEN ListOf([i \in 1..Len(file.elems) |-> record(file.elems[i])])
        ELSE [isList |-> FALSE, records |-> <<record(file)>>]

(***************************************************************************)
(* Document Renderer: generate_html, generate_pdf, generate_multiple_pdfs  *)
(* and generate_from_json of pdf_generator.py.  Markup is a sequence of     *)
(* parts: the rendering of the template for one prepared record, the       *)
(* page-break marker, the newline that joins the documents.  environment   *)
(* says whether templates/invoice.html and templates/styles.css exist and  *)
(* whether the output path can be written.                                 *)
(***************************************************************************)
TemplateNotFound == "TemplateNotFound"
OSError == "OSError"
FileNotFoundError == "FileNotFoundError"

Document(prepared_data) == [markup |-> "document", invoice |-> prepared_data]
PageBreak == [markup |-> "<div class=\"page-break\"></div>"]
NewLine == [markup |-> "\n"]

\* generate_html(invoice_data): the exception that leaves it
GenerateHtmlRaises(invoice_data, environment) ==
    IF ~environment.template THEN TemplateNotFound
    ELSE PrepareRaises(invoice_data)

\* generate_html(invoice_data): template.render(invoice=prepared_data)
GenerateHtml(invoice_data, current_date) ==
    <<Document(PrepareInvoiceData(invoice_data, current_date))>>

\* mutant: the marker follows the first document only
HtmlContentsFirstBreak(invoice_list, current_date) ==
    [i \in 1..Len(invoice_list) |->
        GenerateHtml(invoice_list[i], current_date) \o
        (IF i = 1 /\ Len(invoice_list) > 1 THEN <<PageBreak>> ELSE <<>>)]

\* the mutation of C25: the invoice_type of the first record is kept for
\* the records after it
HtmlContentsSharedType(invoice_list, current_date) ==
    [i \in 1..Len(invoice_list) |->
        GenerateHtml([key \in DOMAIN invoice_list[i] |->
                        IF key = "invoice_type" /\ key \in DOMAIN invoice_list[1]
                        THEN invoice_list[1][key]
                        ELSE invoice_list[i][key]], current_date) \o
        (IF i < Len(invoice_list) THEN <<PageBreak>> ELSE <<>>)]

\* the loop of generate_multiple_pdfs: html_contents
HtmlContents(invoice_list, current_date) ==
    [i \in 1..Len(invoice_list) |->
        GenerateHtml(invoice_list[i], current_date) \o
        (IF i < Len(invoice_list) THEN <<PageBreak>> ELSE <<>>)]

\* "\n".join(html_contents)
RECURSIVE Join(_)
Join(html_contents) ==
    IF html_contents = <<>> THEN <<>>
    ELSE IF Len(html_contents) = 1 THEN html_contents[1]
    ELSE Join(Front(html_contents)) \o <<NewLine>> \o Last(html_contents)

\* mutant: the handler ends the exception
Swallowed(exception) == NoException

\* except Exception as e: print(...); raise
Reraise(exception) == exception

\* html_doc.write_pdf(output_path, ...) with the stylesheet when it exists:
\* what the call built, wrote and raised
WritePdf(markup, environment) ==
    IF ~environment.writable
    THEN [html |-> markup, output |-> NoResult, raised |-> Reraise(OSError)]
    ELSE [html |-> markup,
          output |-> [markup |-> markup,
                      stylesheets |-> IF environment.css THEN <<"styles.css">>
                                      ELSE <<>>],
          raised |-> NoException]

\* generate_pdf(invoice_data, output_path)
GeneratePdf(invoice_data, current_date, environment) ==
    IF GenerateHtmlRaises(invoice_data, environment) # NoException
    THEN [html |-> NoMarkup, output |-> NoResult,
          raised |-> Reraise(GenerateHtmlRaises(invoice_data, environment))]
    ELSE WritePdf(GenerateHtml(invoice_data, current_date), environment)

\* the loop of generate_multiple_pdfs: the exception of the first record
\* whose generate_html raises
RECURSIVE LoopRaises(_, _)
LoopRaises(invoice_list, environment) ==
    IF invoice_list = <<>> THEN NoException
    ELSE IF GenerateHtmlRaises(Head(invoice_list), environment) # NoException
    THEN GenerateHtmlRaises(Head(invoice_list), environment)
    ELSE LoopRaises(Tail(invoice_list), environment)

\* generate_multiple_pdfs(invoices, output_path)
GenerateMultiplePdfs(invoice_list, current_date, environment) ==
    IF LoopRaises(invoice_list, environment) # NoException
    THEN [html |-> NoMarkup, output |-> NoResult,
          raised |-> Reraise(LoopRaises(invoice_list, environment))]
    ELSE WritePdf(Join(HtmlContents(invoice_list, current_date)), environment)

\* the except clause of generate_from_json around the call it made
Propagated(out) ==
    [html |-> out.html, output |-> out.output, raised |-> Reraise(out.raised)]

\* generate_from_json(json_file_path, output_path): the file is read again
GenerateFromJson(file, current_date, environment) ==
    IF file.json = "array"
    THEN Propagated(GenerateMultiplePdfs(JsonLoad(file).records, current_date,
                                         environment))
    ELSE Propagated(GeneratePdf(JsonLoad(file).records[1], current_date,
                                environment))

(***************************************************************************)
(* SpecMain: one run of an entry point of main.py (class InvoiceProcessor): *)
(* process_json_to_pdf ("json"), process_csv_to_pdf ("csv") or             *)
(* convert_csv_to_json ("convert").  A file that does not exist is         *)
(* NoResult.  Each action is one call the entry point makes, in the order  *)
(* of the code.                                                            *)
(***************************************************************************)
Environments == [template : BOOLEAN, css : BOOLEAN, writable : BOOLEAN]

\* rows that name at most their first slot, and lines that end early
MainIntents ==
    {r \in RowIntents : r.cut # NoCut \/ \A i \in 2..4 : r.names[i] = <<>>}

InitMain ==
    /\ pc = "start"
    /\ today \in Dates
    /\ entry \in {"json", "csv", "convert"}
    /\ IF entry = "json"
       THEN /\ jsonFile \in {NoResult} \cup
                    {JsonDump(d) : d \in Documents(MaxRecords)
                                        \cup DocumentsFrom(TypedRecordPool, MaxRecords)}
            /\ csvFile = NoResult
       ELSE /\ csvFile \in {NoResult} \cup CsvFilesFrom(MainIntents, MaxRows)
            /\ jsonFile = NoResult
    /\ invoice = NoResult
    /\ prepared = NoResult
    /\ totals = NoResult
    /\ raised = NoException
    /\ invoices = <<>>
    /\ data = NoResult
    /\ data0 = NoResult
    /\ valid = NoResult
    /\ env = NoResult
    /\ info = NoResult
    /\ html = NoMarkup
    /\ output = NoResult
    /\ result = NoResult
    /\ BackendIdle

\* process_json_to_pdf: os.path.exists and load_json_file
LoadJson ==
    /\ pc = "start" /\ entry = "json"
    /\ IF jsonFile = NoResult
       THEN /\ result' = FALSE
            /\ pc' = "done"
            /\ UNCHANGED data
       ELSE /\ data' = JsonLoad(jsonFile)
            /\ pc' = "loaded"
            /\ UNCHANGED result
    /\ UNCHANGED <<today, invoice, prepared, totals, raised, csvFile, invoices,
                   data0, valid, entry, jsonFile, env, info, html, output,
                   backendVars>>

\* process_json_to_pdf: validate_json_structure, and return False
ValidateJson ==
    /\ pc = "loaded"
    /\ valid' = ValidateJsonStructure(data)
    /\ IF ValidateJsonStructure(data).result
       THEN pc' = "validated" /\ UNCHANGED result
       ELSE pc' = "done" /\ result' = FALSE
    /\ UNCHANGED <<today, invoice, prepared, totals, raised, csvFile, invoices,
                   data, data0, entry, jsonFile, env, info, html, output,
                   backendVars>>

\* process_csv_to_pdf: os.path.exists and validate_csv_format
CheckCsv ==
    /\ pc = "start" /\ entry = "csv"
    /\ IF csvFile = NoResult
       THEN pc' = "done" /\ result' = FALSE
       ELSE IF ~ValidateCsvFormat(csvFile)
       THEN pc' = "done" /\ result' = FALSE
       ELSE pc' = "checked" /\ UNCHANGED result
    /\ UNCHANGED <<today, invoice, prepared, totals, raised, csvFile, invoices,
                   data, data0, valid, entry, jsonFile, env, info, html, output,
                   backendVars>>

\* process_csv_to_pdf: read_csv_to_json
ReadChecked ==
    /\ pc = "checked"
    /\ invoices' = ReadCsvToJson(csvFile)
    /\ pc' = "validated"
    /\ UNCHANGED <<today, invoice, prepared, totals, raised, csvFile, data,
                   data0, valid, mainVars, backendVars>>

\* get_json_info(data) of process_json_to_pdf, get_json_info(invoices) of
\* process_csv_to_pdf
Info ==
    /\ pc = "validated"
    /\ info' = GetJsonInfo(IF entry = "json" THEN data ELSE ListOf(invoices))
    /\ pc' = "informed"
    /\ UNCHANGED <<today, invoice, prepared, totals, raised, csvFile, invoices,
                   data, data0, valid, entry, jsonFile, env, html, output,
                   result, backendVars>>

\* generate_from_json(json_file_path, output_path) of process_json_to_pdf,
\* generate_multiple_pdfs(invoices, output_path) of process_csv_to_pdf, and
\* the except clause of the entry point
Generate ==
    /\ pc = "informed"
    /\ \E environment \in Environments :
        \E out \in {IF entry = "json"
                    THEN GenerateFromJson(jsonFile, today, environment)
                    ELSE GenerateMultiplePdfs(invoices, today, environment)} :
            /\ env' = environment
            /\ html' = out.html
            /\ output' = out.output
            /\ raised' = out.raised
            /\ result' = (out.raised = NoException)
    /\ pc' = "done"
    /\ UNCHANGED <<today, invoice, prepared, totals, csvFile, invoices, data,
                   data0, valid, entry, jsonFile, info, backendVars>>

\* convert_csv_to_json: read_csv_to_json in csv_to_json_file
ConvertRead ==
    /\ pc = "start" /\ entry = "convert"
    /\ IF csvFile = NoResult
       THEN /\ raised' = FileNotFoundError
            /\ result' = FALSE
            /\ pc' = "done"
            /\ UNCHANGED invoices
       ELSE /\ invoices' = ReadCsvToJson(csvFile)
            /\ pc' = "converted"
            /\ UNCHANGED <<raised, result>>
    /\ UNCHANGED <<today, invoice, prepared, totals, csvFile, data, data0,
                   valid, entry, jsonFile, env, info, html, output, backendVars>>

\* convert_csv_to_json: json.dump in csv_to_json_file
ConvertWrite ==
    /\ pc = "converted"
    /\ jsonFile' = JsonDump(ListOf(invoices))
    /\ pc' = "written"
    /\ UNCHANGED <<today, invoice, prepared, totals, raised, csvFile, invoices,
                   data, data0, valid, entry, env, info, html, output, result,
                   backendVars>>

\* convert_csv_to_json: load_json_file, validate_json_structure and
\* get_json_info
ConvertVerify ==
    /\ pc = "written"
    /\ data' = JsonLoad(jsonFile)
    /\ valid' = ValidateJsonStructure(JsonLoad(jsonFile))
    /\ info' = GetJsonInfo(JsonLoad(jsonFile))
    /\ result' = TRUE
    /\ pc' = "done"
    /\ UNCHANGED <<today, invoice, prepared, totals, raised, csvFile, invoices,
                   data0, entry, jsonFile, env, html, output, backendVars>>

NextMain ==
    \/ LoadJson \/ ValidateJson \/ CheckCsv \/ ReadChecked \/ Info \/ Generate
    \/ ConvertRead \/ ConvertWrite \/ ConvertVerify

SpecMain == InitMain /\ [][NextMain]_vars

(***************************************************************************)
(* Properties of the entry points, checked under SpecMain.                 *)
(***************************************************************************)
\* the record lacks a required field, or an item of it lacks an item field
MissingField(rec) ==
    \/ ~(RequiredSet \subseteq DOMAIN rec)
    \/ /\ rec["items"].isList
       /\ \E i \in 1..Len(rec["items"].elems) :
            ~(ItemFieldSet \subseteq DOMAIN rec["items"].elems[i])

\* the record set a render entry point has loaded
LoadedRecords ==
    IF entry = "json" THEN (IF data = NoResult THEN <<>> ELSE data.records)
    ELSE invoices

\* C11: in a run of process_json_to_pdf or process_csv_to_pdf, when a record
\* of the loaded record set lacks a required field, no aggregate is
\* calculated, no markup is rendered and no PDF is written, for no record of
\* the batch, and the run ends returning False.
C11_InvalidRecordStopsRun ==
    (entry \in {"json", "csv"} /\
     \E r \in 1..Len(LoadedRecords) : MissingField(LoadedRecords[r]))
    => /\ info = NoResult
       /\ html = NoMarkup
       /\ output = NoResult
       /\ pc \in {"loaded", "done"}
       /\ pc = "done" => result = FALSE

\* C11 witness: a batch of a well-formed record and a record without notes
\* ended with False and nothing written.
C11_Witness ==
    /\ entry = "json"
    /\ pc = "done"
    /\ data # NoResult
    /\ data.isList
    /\ Len(data.records) = 2
    /\ WellFormed(data.records[1])
    /\ RequiredSet \ DOMAIN data.records[2] = {"notes"}
    /\ result = FALSE
    /\ info = NoResult
    /\ output = NoResult

\* the positions of the parts of markup that satisfy Test
Positions(markup, Test(_)) == {k \in 1..Len(markup) : Test(markup[k])}
IsDocument(part) == part.markup = "document"
IsPageBreak(part) == part = PageBreak

\* the records generate_multiple_pdfs was called with
RenderedList ==
    IF entry = "json" THEN data.records ELSE invoices

\* C12: the markup generate_multiple_pdfs builds for N >= 1 records holds
\* the N documents in the order of the records and exactly N - 1 page-break
\* markers: one right after each document but the last, none anywhere else.
C12_PageBreaks ==
    (/\ pc = "done"
     /\ html # NoMarkup
     /\ entry = "json" => data.isList
     /\ Len(RenderedList) >= 1)
    => LET N == Len(RenderedList)
           docs == SelectSeq(html, IsDocument)
       IN  /\ docs = [i \in 1..N |->
                        Document(PrepareInvoiceData(RenderedList[i], today))]
           /\ Cardinality(Positions(html, IsPageBreak)) = N - 1
           /\ \A k \in Positions(html, IsPageBreak) :
                k > 1 /\ IsDocument(html[k - 1])
           /\ \A k \in Positions(html, IsDocument) :
                IF k = Len(html) THEN TRUE
                ELSE IsPageBreak(html[k + 1])
           /\ IsDocument(html[Len(html)])

\* C12 witness: three records were rendered into markup with two markers.
C12_Witness ==
    /\ pc = "done"
    /\ entry = "json"
    /\ html # NoMarkup
    /\ data.isList
    /\ Len(data.records) = 3
    /\ data.records[1] # data.records[2]
    /\ data.records[2] # data.records[3]
    /\ Cardinality(Positions(html, IsPageBreak)) = 2
    /\ output # NoResult

\* the item amounts, the totals and the tax annotation of a prepared record
Figures(prepared_data) ==
    [amounts |-> [i \in 1..Len(prepared_data.item_list) |->
                    prepared_data.item_list[i]["amount"]],
     totals |-> prepared_data.totals,
     tax_note |-> prepared_data.tax_note]

\* C25: in a render of several records, the item amounts, subtotal, tax,
\* total and tax_note of each document are those that generate_pdf gives
\* for its record alone, whatever the other records and its position.
C25_RecordsIndependent ==
    (/\ pc = "done"
     /\ html # NoMarkup
     /\ entry = "json" => data.isList
     /\ Len(RenderedList) >= 2)
    => LET docs == SelectSeq(html, IsDocument)
       IN  /\ Len(docs) = Len(RenderedList)
           /\ \A i \in 1..Len(docs) :
                \E alone \in {GeneratePdf(RenderedList[i], today, env)} :
                    /\ Len(alone.html) = 1
                    /\ Figures(docs[i].invoice) = Figures(alone.html[1].invoice)

\* C25 witness: three records of three invoice_types were rendered
\* together, the taxed one last, with its own tax and no annotation.
C25_Witness ==
    /\ pc = "done"
    /\ entry = "json"
    /\ html # NoMarkup
    /\ data.isList
    /\ Len(data.records) = 3
    /\ data.records[1]["invoice_type"] = ErLian
    /\ data.records[2]["invoice_type"] = <<>>
    /\ data.records[3]["invoice_type"] = SanLian
    /\ LET docs == SelectSeq(html, IsDocument)
       IN  /\ docs[1].invoice.tax_note # <<>>
           /\ docs[2].invoice.tax_note = <<>>
           /\ docs[3].invoice.tax_note = <<>>
           /\ docs[3].invoice.totals.tax = <<"2", "0">>
           /\ docs[3].invoice.totals.total = <<"4", "2", "0">>
           /\ docs[1].invoice.totals.total = <<"2", ",", "0", "0", "0">>

\* C27: for every record that prepare_invoice_data can prepare,
\* get_invoice_info reports the subtotal, tax and total that calculate_totals
\* gives prepare_invoice_data for the record, also when an empty amount is
\* derived from quantity x unit_price.
C27_InfoMatchesRenderedTotals ==
    (pc = "informed" /\ PrepareRaises(invoice) = NoException)
    => \E t \in {CalculateTotals(ProcessItems(ItemsOf(invoice)),
                                 Get(invoice, "invoice_type", <<>>))} :
          /\ info.subtotal = t.subtotal
          /\ info.tax = t.tax
          /\ info.total = t.total

\* the sum of the subtotals calculate_totals gives prepare_invoice_data for
\* the records
RECURSIVE SubtotalSum(_)
SubtotalSum(records) ==
    IF records = <<>> THEN Zero
    ELSE NumAdd(SubtotalSum(Front(records)),
                CalculateTotals(ProcessItems(ItemsOf(Last(records))),
                                Get(Last(records), "invoice_type", <<>>)).subtotal)

\* C26: when process_csv_to_pdf has rendered the normalized records, the
\* total_amount that get_json_info reported for them equals the sum of the
\* subtotals the renderer computed for the same records.
C26_InfoTotalIsRenderedSubtotal ==
    (/\ pc = "done"
     /\ entry = "csv"
     /\ html # NoMarkup)
    => info.total_amount = SubtotalSum(invoices)

\* C16: the records read_csv_to_json produced, written by csv_to_json_file
\* and reloaded by load_json_file, are the same records in the same order,
\* with the same fields, the same items and the same values.
C16_RoundTrip ==
    entry = "convert" /\ pc = "done" /\ csvFile # NoResult =>
        /\ data.isList
        /\ data.records = invoices
        /\ Len(data.records) = Len(invoices)
        /\ \A r \in 1..Len(invoices) :
              /\ DOMAIN data.records[r] = DOMAIN invoices[r]
              /\ \A key \in DOMAIN invoices[r] :
                    data.records[r][key] = invoices[r][key]

\* C16 witness: a file of two rows, one cut short so that fields are None,
\* one with an item, was converted and reloaded.
C16_Witness ==
    /\ entry = "convert"
    /\ pc = "done"
    /\ Len(invoices) = 2
    /\ invoices[1] # invoices[2]
    /\ \E r \in 1..2 : invoices[r]["notes"] = None
    /\ \E r \in 1..2 : invoices[r]["items"].elems # <<>>
    /\ data.records = invoices

\* C17: in process_csv_to_pdf and in convert_csv_to_json, a file whose
\* header lacks a required column fails the format check before a row is
\* read: no row of it is normalized and the run ends in failure.
C17_FormatCheckBeforeRows ==
    (/\ entry \in {"csv", "convert"}
     /\ csvFile # NoResult
     /\ ~ValidateCsvFormat(csvFile))
    => /\ invoices = <<>>
       /\ jsonFile = NoResult
       /\ pc = "done" => result = FALSE

\* the records the generator was called with
Rendered ==
    IF entry = "json" THEN data.records ELSE invoices

\* the exception prepare_invoice_data raises for the first record that
\* raises one
RECURSIVE FirstPrepareError(_)
FirstPrepareError(records) ==
    IF records = <<>> THEN NoException
    ELSE IF PrepareRaises(Head(records)) # NoException
    THEN PrepareRaises(Head(records))
    ELSE FirstPrepareError(Tail(records))

\* C18: an error raised while generate_pdf, generate_multiple_pdfs or
\* generate_from_json renders or writes (the template is missing, a record
\* cannot be prepared, the output cannot be written) reaches the caller as
\* the exception it was; when styles.css is missing the PDF is written
\* without a stylesheet.
C18_RenderErrorsPropagate ==
    pc = "done" /\ env # NoResult =>
        IF ~env.template /\ Rendered # <<>>
        THEN raised = TemplateNotFound /\ output = NoResult /\ result = FALSE
        ELSE IF FirstPrepareError(Rendered) # NoException
        THEN /\ raised = FirstPrepareError(Rendered)
             /\ output = NoResult /\ result = FALSE
        ELSE IF ~env.writable
        THEN raised = OSError /\ output = NoResult /\ result = FALSE
        ELSE /\ raised = NoException
             /\ result = TRUE
             /\ output # NoResult
             /\ output.markup = html
             /\ output.stylesheets = IF env.css THEN <<"styles.css">> ELSE <<>>

\* C18 witness: with the template missing, the rendering of a record ended
\* with TemplateNotFound at the entry point and nothing was written.
C18_Witness ==
    /\ pc = "done"
    /\ env # NoResult
    /\ ~env.template
    /\ Rendered # <<>>
    /\ raised = TemplateNotFound
    /\ output = NoResult

\* a PDF was written without a stylesheet because styles.css is missing
C18_NoStylesheet ==
    /\ pc = "done"
    /\ env # NoResult
    /\ env.template /\ ~env.css /\ env.writable
    /\ Rendered # <<>>
    /\ raised = NoException
    /\ output # NoResult
    /\ output.stylesheets = <<>>

(***************************************************************************)
(* Backend: the user, customer and contract services and their endpoints.  *)
(* A request is handled in steps separated by the awaits of its handler,   *)
(* so that the handlers of concurrent requests interleave.                 *)
(***************************************************************************)
\* str.lower() on the letters of the messages
Lower(s) ==
    LET upper == <<"A", "B", "C", "D", "E", "F", "G", "H", "I", "J", "K", "L", "M",
                   "N", "O", "P", "Q", "R", "S", "T", "U", "V", "W", "X", "Y", "Z">>
        lower == <<"a", "b", "c", "d", "e", "f", "g", "h", "i", "j", "k", "l", "m",
                   "n", "o", "p", "q", "r", "s", "t", "u", "v", "w", "x", "y", "z">>
    IN  [i \in 1..Len(s) |->
            IF \E k \in 1..26 : upper[k] = s[i]
            THEN lower[CHOOSE k \in 1..26 : upper[k] = s[i]]
            ELSE s[i]]

\* sub in s
In(sub, s) ==
    \E i \in 0..(Len(s) - Len(sub)) : SubSeq(s, i + 1, i + Len(sub)) = sub

\* "User with this email already exists"
EmailExists ==
    <<"U", "s", "e", "r", " ", "w", "i", "t", "h", " ", "t", "h", "i",
      "s", " ", "e", "m", "a", "i", "l", " ", "a", "l", "r", "e", "a",
      "d", "y", " ", "e", "x", "i", "s", "t", "s">>

\* the text of the unique violation that commit() raises on the user table:
\* "UNIQUE constraint failed: user.<column>" (SQLite),
\* "duplicate key value violates unique constraint" (PostgreSQL)
UniqueViolation ==
    {
     <<"U", "N", "I", "Q", "U", "E", " ", "c", "o", "n", "s", "t", "r",
       "a", "i", "n", "t", " ", "f", "a", "i", "l", "e", "d", ":", " ",
       "u", "s", "e", "r", ".", "e", "m", "a", "i", "l">>,
     <<"d", "u", "p", "l", "i", "c", "a", "t", "e", " ", "k", "e", "y",
       " ", "v", "a", "l", "u", "e", " ", "v", "i", "o", "l", "a", "t",
       "e", "s", " ", "u", "n", "i", "q", "u", "e", " ", "c", "o", "n",
       "s", "t", "r", "a", "i", "n", "t">>}

\* "Failed to create contract"
FailedToCreateContract ==
    <<"F", "a", "i", "l", "e", "d", " ", "t", "o", " ", "c", "r", "e",
      "a", "t", "e", " ", "c", "o", "n", "t", "r", "a", "c", "t">>

\* no exception left the service
NoRaise == [type |-> NoException, message |-> <<>>]

\* the mutation of C19: the lookup by email finds no row
NoExistingUser(email, table) == {}

\* select(User).where(User.email == user.email)
ExistingUser(email, table) == {u \in table : u.email = email}

\* the mutation of C20: the lookup by id finds a row for every id
AnyCustomer(customer_id, table) == {customer_id}

\* select(Customer).where(Customer.id == contract.customer_id)
StoredCustomer(customer_id, table) == {c \in table : c = customer_id}

\* the mutation of C29: create_user without its clause for IntegrityError
CreateUserResponseNoIntegrity(exception) ==
    IF exception.type = NoException
    THEN [status |-> 201, detail |-> <<>>]
    ELSE IF exception.type = "ValueError"
    THEN [status |-> 409, detail |-> exception.message]
    ELSE [status |-> 500, detail |-> exception.message]

\* create_user: the status and detail of the response to what
\* UserService.create raised
CreateUserResponse(exception) ==
    IF exception.type = NoException
    THEN [status |-> 201, detail |-> <<>>]
    ELSE IF exception.type = "ValueError"
    THEN IF In(<<"e", "m", "a", "i", "l", " ", "a", "l", "r", "e", "a", "d", "y", " ",
                 "e", "x", "i", "s", "t", "s">>, Lower(exception.message))
         THEN [status |-> 409, detail |-> exception.message]
         ELSE [status |-> 400, detail |-> exception.message]
    ELSE IF exception.type = "IntegrityError"
    THEN IF \/ In(<<"u", "n", "i", "q", "u", "e">>, Lower(exception.message))
            \/ In(<<"d", "u", "p", "l", "i", "c", "a", "t", "e">>, Lower(exception.message))
         THEN [status |-> 409, detail |-> EmailExists]
         ELSE [status |-> 400, detail |-> exception.message]
    ELSE [status |-> 500, detail |-> exception.message]

\* create_contract: the status and detail of the response to what
\* ContractService.create returned
CreateContractResponse(returned) ==
    IF returned = "None"
    THEN [status |-> 400, detail |-> FailedToCreateContract]
    ELSE [status |-> 201, detail |-> <<>>]

Requests == {"r1", "r2"}
Emails == {"a@example.com", "b@example.com"}
Phones == {"0911111111", "0922222222"}
CustomerIds == {"c1", "c2"}
ContractIds == {"k1", "k2"}

\* the request of a handler that is at position at: "checked" while it waits
\* between its lookup and its commit, "done" when it was answered
Request(op, body, at, exception, returned, answer) ==
    [op |-> op, body |-> body, at |-> at, raised |-> exception,
     returned |-> returned, status |-> answer.status, detail |-> answer.detail]

InitBackend ==
    /\ pc = "backend"
    /\ today = <<>>
    /\ invoice = NoResult
    /\ prepared = NoResult
    /\ totals = NoResult
    /\ raised = NoException
    /\ csvFile = NoResult
    /\ invoices = <<>>
    /\ data = NoResult
    /\ data0 = NoResult
    /\ valid = NoResult
    /\ MainIdle
    /\ users = {}
    /\ customers \in SUBSET CustomerIds
    /\ contracts = {}
    /\ response = [r \in Requests |-> Request("none", NoResult, "done", NoRaise, "", [status |-> 0, detail |-> <<>>])]

\* POST /api/v1/users/ up to the result of the lookup by email:
\* UserService.create raises ValueError when a user has the email
CreateUserCheck(r) ==
    /\ response[r].at = "done"
    /\ \E email \in Emails, contact_phone \in Phones :
        LET user == [email |-> email, contact_phone |-> contact_phone]
            exception == [type |-> "ValueError", message |-> EmailExists]
        IN  response' = [response EXCEPT ![r] =
                IF ExistingUser(email, users) # {}
                THEN Request("user", user, "done", exception, "", CreateUserResponse(exception))
                ELSE Request("user", user, "checked", NoRaise, "", [status |-> 0, detail |-> <<>>])]
    /\ UNCHANGED <<pc, today, invoice, prepared, totals, raised, csvFile, invoices, data, data0, valid, mainVars, users, customers, contracts>>

\* POST /api/v1/users/ from session.add to the response: commit() inserts
\* the row unless the email or the contact_phone is the one of a stored user
CreateUserCommit(r) ==
    /\ response[r].at = "checked"
    /\ response[r].op = "user"
    /\ LET user == response[r].body IN
        IF \E u \in users : u.email = user.email \/ u.contact_phone = user.contact_phone
        THEN /\ \E message \in UniqueViolation :
                    response' = [response EXCEPT ![r] =
                        Request("user", user, "done", [type |-> "IntegrityError", message |-> message], "",
                                 CreateUserResponse([type |-> "IntegrityError", message |-> message]))]
             /\ users' = users
        ELSE /\ response' = [response EXCEPT ![r] =
                    Request("user", user, "done", NoRaise, "UserRead", CreateUserResponse(NoRaise))]
             /\ users' = users \cup {user}
    /\ UNCHANGED <<pc, today, invoice, prepared, totals, raised, csvFile, invoices, data, data0, valid, mainVars, customers, contracts>>

\* POST /api/v1/customers/: CustomerService.create reads
\* customer.messaging_app_line (customer_service.py:72), a field the schema
\* CustomerWrite does not have (schemas/customer.py:24), so AttributeError
\* is raised before session.add; create_customer handles no exception
CreateCustomer(r) ==
    /\ response[r].at = "done"
    /\ response' = [response EXCEPT ![r] =
            Request("customer", [customer_name |-> <<"A">>], "done",
                    [type |-> "AttributeError", message |-> <<>>], "",
                    [status |-> 500, detail |-> <<>>])]
    /\ UNCHANGED <<pc, today, invoice, prepared, totals, raised, csvFile, invoices, data, data0, valid, mainVars, users, customers, contracts>>

\* POST /api/v1/contracts/ up to the result of the lookup of the customer:
\* ContractService.create returns None when no customer has the id
CreateContractCheck(r) ==
    /\ response[r].at = "done"
    /\ \E customer_id \in CustomerIds :
        LET contract == [customer_id |-> customer_id] IN
        IF StoredCustomer(customer_id, customers) = {}
        THEN response' = [response EXCEPT ![r] =
                Request("contract", contract, "done", NoRaise, "None", CreateContractResponse("None"))]
        ELSE /\ Cardinality(contracts)
                + Cardinality({q \in Requests : /\ response[q].op = "contract"
                                                /\ response[q].at = "checked"})
                < Cardinality(ContractIds)
             /\ response' = [response EXCEPT ![r] = Request("contract", contract, "checked", NoRaise, "", [status |-> 0, detail |-> <<>>])]
    /\ UNCHANGED <<pc, today, invoice, prepared, totals, raised, csvFile, invoices, data, data0, valid, mainVars, users, customers, contracts>>

\* POST /api/v1/contracts/ from session.add to the response: commit()
\* inserts the row under a new id; the foreign key customer.id refuses a
\* customer_id that no customer has, and create_contract handles no exception
CreateContractCommit(r) ==
    /\ response[r].at = "checked"
    /\ response[r].op = "contract"
    /\ LET contract == response[r].body IN
        IF contract.customer_id \in customers
        THEN \E id \in ContractIds \ {k.id : k \in contracts} :
                /\ contracts' = contracts \cup {[id |-> id, customer_id |-> contract.customer_id]}
                /\ response' = [response EXCEPT ![r] =
                        Request("contract", contract, "done", NoRaise, "ContractRead",
                                 CreateContractResponse("ContractRead"))]
        ELSE /\ contracts' = contracts
             /\ response' = [response EXCEPT ![r] =
                    Request("contract", contract, "done", [type |-> "IntegrityError", message |-> <<>>], "",
                             [status |-> 500, detail |-> <<>>])]
    /\ UNCHANGED <<pc, today, invoice, prepared, totals, raised, csvFile, invoices, data, data0, valid, mainVars, users, customers>>

NextBackend ==
    \E r \in Requests :
        \/ CreateUserCheck(r)
        \/ CreateUserCommit(r)
        \/ CreateCustomer(r)
        \/ CreateContractCheck(r)
        \/ CreateContractCommit(r)

SpecBackend == InitBackend /\ [][NextBackend]_vars

(***************************************************************************)
(* Properties of the backend, checked under SpecBackend.                   *)
(***************************************************************************)
\* request r is taken up in this step
Begins(r) ==
    /\ response[r].at = "done"
    /\ response'[r] # response[r]

\* C19: a request to create a user whose email is the email of a stored
\* user ends with UserService.create raising ValueError with a message
\* containing "email already exists" and with status 409; the user table
\* is unchanged and holds exactly one user with that email.
C19_DuplicateEmailRejected ==
    [][\A r \in Requests :
        (/\ Begins(r)
         /\ response'[r].op = "user"
         /\ \E u \in users : u.email = response'[r].body.email)
        => /\ response'[r].at = "done"
           /\ response'[r].raised.type = "ValueError"
           /\ In(<<"e", "m", "a", "i", "l", " ", "a", "l", "r", "e", "a", "d", "y", " ",
                   "e", "x", "i", "s", "t", "s">>, response'[r].raised.message)
           /\ response'[r].status = 409
           /\ users' = users
           /\ Cardinality({u \in users' : u.email = response'[r].body.email}) = 1]_vars

\* C19 witness: a request for the email of a stored user was answered with
\* 409 after ValueError, and one user has the email.
C19_Witness ==
    \E r \in Requests :
        /\ response[r].op = "user"
        /\ response[r].at = "done"
        /\ response[r].raised = [type |-> "ValueError", message |-> EmailExists]
        /\ response[r].status = 409
        /\ Cardinality({u \in users : u.email = response[r].body.email}) = 1
        /\ \E u \in users : u.email = response[r].body.email
                            /\ u.contact_phone # response[r].body.contact_phone

\* C29: in every interleaving of requests to create users no two stored
\* users share an email, and a request that passed the lookup by email and
\* commits when a stored user has its email is answered with 409: it stores
\* no user and does not return the created user.
C29_RaceLoserGetsConflict ==
    [][/\ \A u, v \in users' : u.email = v.email => u = v
       /\ \A r \in Requests :
            (/\ response[r].op = "user"
             /\ response[r].at = "checked"
             /\ response'[r] # response[r]
             /\ \E u \in users : u.email = response[r].body.email)
            => /\ response'[r].at = "done"
               /\ response'[r].status = 409
               /\ response'[r].returned # "UserRead"
               /\ users' = users]_vars

\* C29 witness: two requests for one email and two phones passed the
\* lookup; one stored its user and got 201, the other got 409 after
\* IntegrityError, and one user has the email.
C29_Witness ==
    \E r, q \in Requests :
        /\ r # q
        /\ response[r].op = "user" /\ response[q].op = "user"
        /\ response[r].at = "done" /\ response[q].at = "done"
        /\ response[r].body.email = response[q].body.email
        /\ response[r].body.contact_phone # response[q].body.contact_phone
        /\ response[q].status = 201
        /\ response[q].body \in users
        /\ response[r].raised.type = "IntegrityError"
        /\ response[r].status = 409
        /\ Cardinality({u \in users : u.email = response[r].body.email}) = 1

\* C20: a request to create a contract whose customer_id is the id of no
\* stored customer ends with ContractService.create returning None and with
\* an error status, not 201; the contract table is unchanged.
C20_UnknownCustomerRejected ==
    [][\A r \in Requests :
        (/\ Begins(r)
         /\ response'[r].op = "contract"
         /\ response'[r].body.customer_id \notin customers)
        => /\ response'[r].at = "done"
           /\ response'[r].raised = NoRaise
           /\ response'[r].returned = "None"
           /\ response'[r].status = 400
           /\ contracts' = contracts]_vars

\* C20 witness: a request for an id that no customer has was answered with
\* 400 after None, while a contract of another customer is stored.
C20_Witness ==
    \E r \in Requests :
        /\ response[r].op = "contract"
        /\ response[r].at = "done"
        /\ response[r].returned = "None"
        /\ response[r].status = 400
        /\ response[r].body.customer_id \notin customers
        /\ customers # {}
        /\ contracts # {}
        /\ \A k \in contracts : k.customer_id # response[r].body.customer_id

(***************************************************************************)
(* SpecCustomers: the PATCH and DELETE routes of the customers router and  *)
(* CustomerService.update, on a customer table whose rows have fields.     *)
(***************************************************************************)
\* the values of the fields customer_name and address
CustomerNames == {<<"A">>, <<"B">>}
Addresses == {<<"X">>, <<"Y">>}

\* the customer tables: at most one row per id
CustomerTables ==
    LET rows == [id : CustomerIds, customer_name : CustomerNames, address : Addresses]
    IN  {table \in SUBSET rows : \A a, b \in table : a.id = b.id => a = b}

\* the bodies of CustomerUpdate: the fields that are set, with their values
\* (customer_name: a str of at least one character or null, address: a str
\* or null)
CustomerUpdates ==
    UNION {{update \in [fields -> CustomerNames \cup Addresses \cup {None}] :
                /\ "customer_name" \in fields => update["customer_name"] \notin Addresses
                /\ "address" \in fields => update["address"] \notin CustomerNames} :
            fields \in SUBSET {"customer_name", "address"}}

\* the row with every field of the body written to it, null included
SetEveryField(row, update_data) ==
    [field \in DOMAIN row |->
        IF field \in DOMAIN update_data THEN update_data[field] ELSE row[field]]

\* CustomerService.update: setattr for the fields of
\* model_dump(exclude_unset=True) whose value is not None
SetFields(row, update_data) ==
    [field \in DOMAIN row |->
        IF field \in DOMAIN update_data /\ update_data[field] # None
        THEN update_data[field]
        ELSE row[field]]

InitCustomers ==
    /\ pc = "customers"
    /\ today = <<>>
    /\ invoice = NoResult
    /\ prepared = NoResult
    /\ totals = NoResult
    /\ raised = NoException
    /\ csvFile = NoResult
    /\ invoices = <<>>
    /\ data = NoResult
    /\ data0 = NoResult
    /\ valid = NoResult
    /\ MainIdle
    /\ users = {}
    /\ customers \in CustomerTables
    /\ contracts = {}
    /\ response = Request("none", NoResult, "done", NoRaise, "", [status |-> 0, detail |-> <<>>])

\* PATCH /api/v1/customers/: the handler answers 200 with the body it was
\* given and calls no service
update_customer ==
    /\ \E customer \in CustomerUpdates :
        response' = Request("PATCH /", [update |-> customer], "done", NoRaise,
                            "customer", [status |-> 200, detail |-> <<>>])
    /\ UNCHANGED <<pc, today, invoice, prepared, totals, raised, csvFile, invoices, data, data0, valid, mainVars, users, customers, contracts>>

\* DELETE /api/v1/customers/?id=<int>: the handler answers 200 with
\* {"status": "try"} and calls no service
delete_customer ==
    /\ \E id \in 1..2 :
        response' = Request("DELETE /", [id |-> id], "done", NoRaise,
                            "status", [status |-> 200, detail |-> <<>>])
    /\ UNCHANGED <<pc, today, invoice, prepared, totals, raised, csvFile, invoices, data, data0, valid, mainVars, users, customers, contracts>>

\* PATCH or DELETE /api/v1/customers/{customer_id}: the router has the path
\* for GET only, so that no handler runs and the answer is 405
MethodNotAllowed ==
    /\ \E customer_id \in CustomerIds :
        \/ \E customer \in CustomerUpdates :
            response' = Request("PATCH /{customer_id}",
                                [customer_id |-> customer_id, update |-> customer],
                                "done", NoRaise, "", [status |-> 405, detail |-> <<>>])
        \/ response' = Request("DELETE /{customer_id}", [customer_id |-> customer_id],
                               "done", NoRaise, "", [status |-> 405, detail |-> <<>>])
    /\ UNCHANGED <<pc, today, invoice, prepared, totals, raised, csvFile, invoices, data, data0, valid, mainVars, users, customers, contracts>>

\* CustomerService.update, called directly: None when no row has the id;
\* otherwise the fields are set and committed, and CustomerRead (id: int)
\* is validated from the row, whose id is a UUID
UpdateCustomer ==
    /\ \E customer_id \in CustomerIds, customer_update \in CustomerUpdates :
        LET found == {c \in customers : c.id = customer_id} IN
        IF found = {}
        THEN /\ response' = Request("CustomerService.update",
                                    [customer_id |-> customer_id, update |-> customer_update],
                                    "done", NoRaise, "None", [status |-> 0, detail |-> <<>>])
             /\ customers' = customers
        ELSE /\ response' = Request("CustomerService.update",
                                    [customer_id |-> customer_id, update |-> customer_update],
                                    "done", [type |-> "ValidationError", message |-> <<>>], "",
                                    [status |-> 0, detail |-> <<>>])
             /\ customers' = (customers \ found)
                                \cup {SetFields(c, customer_update) : c \in found}
    /\ UNCHANGED <<pc, today, invoice, prepared, totals, raised, csvFile, invoices, data, data0, valid, mainVars, users, contracts>>

NextCustomers ==
    \/ update_customer
    \/ delete_customer
    \/ MethodNotAllowed
    \/ UpdateCustomer

SpecCustomers == InitCustomers /\ [][NextCustomers]_vars

(***************************************************************************)
(* Properties of the customers router, checked under SpecCustomers.        *)
(***************************************************************************)
\* C21: DELETE /api/v1/customers/{customer_id} answers 204 and removes the
\* customer when a customer has the id, and answers 404 and leaves the
\* table unchanged when none has.
C21_DeleteCustomer ==
    [][(/\ response' # response
        /\ response'.op = "DELETE /{customer_id}")
        => IF \E c \in customers : c.id = response'.body.customer_id
           THEN /\ response'.status = 204
                /\ customers' = {c \in customers : c.id # response'.body.customer_id}
           ELSE /\ response'.status = 404
                /\ customers' = customers]_vars

\* C22: PATCH /api/v1/customers/{customer_id} answers 200 and sets exactly
\* the fields given in the body when a customer has the id, and answers 404
\* and changes nothing when none has.
C22_PatchCustomer ==
    [][(/\ response' # response
        /\ response'.op = "PATCH /{customer_id}")
        => IF \E c \in customers : c.id = response'.body.customer_id
           THEN /\ response'.status = 200
                /\ customers' =
                    {IF c.id = response'.body.customer_id
                     THEN SetEveryField(c, response'.body.update)
                     ELSE c : c \in customers}
           ELSE /\ response'.status = 404
                /\ customers' = customers]_vars

(***************************************************************************)
(* SpecPassword: the password rule of a user-creation request.             *)
(***************************************************************************)
MaxPassword == 17
MaxPrefix == 3

\* "!@#$%^&*"
ALLOWED_SPECIALS == {"!", "@", "#", "$", "%", "^", "&", "*"}

\* the mutation of C23: the special character is looked for before the
\* lowercase letter
ValidatePasswordReordered(password) ==
    LET Search(class) == \E i \in 1..Len(password) : password[i] \in class
        upper == {"A", "B", "C", "D", "E", "F", "G", "H", "I", "J", "K", "L", "M",
                  "N", "O", "P", "Q", "R", "S", "T", "U", "V", "W", "X", "Y", "Z"}
        lower == {"a", "b", "c", "d", "e", "f", "g", "h", "i", "j", "k", "l", "m",
                  "n", "o", "p", "q", "r", "s", "t", "u", "v", "w", "x", "y", "z"}
    IN  IF ~(8 <= Len(password) /\ Len(password) <= 16)
        THEN "Password must be 8-16 characters long"
        ELSE IF ~Search(upper)
        THEN "Password must contain at least one uppercase letter"
        ELSE IF ~Search(ALLOWED_SPECIALS)
        THEN "Password must contain at least one special character from: !@#$%^&*"
        ELSE IF ~Search(lower)
        THEN "Password must contain at least one lowercase letter"
        ELSE IF \E i \in 1..Len(password) :
                    password[i] \notin upper \cup lower \cup Digits \cup ALLOWED_SPECIALS
        THEN "Password contains invalid characters"
        ELSE NoException

\* validate_password: the message of the ValueError it raises, NoException
\* when it returns True
ValidatePassword(password) ==
    LET Search(class) == \E i \in 1..Len(password) : password[i] \in class
        upper == {"A", "B", "C", "D", "E", "F", "G", "H", "I", "J", "K", "L", "M",
                  "N", "O", "P", "Q", "R", "S", "T", "U", "V", "W", "X", "Y", "Z"}
        lower == {"a", "b", "c", "d", "e", "f", "g", "h", "i", "j", "k", "l", "m",
                  "n", "o", "p", "q", "r", "s", "t", "u", "v", "w", "x", "y", "z"}
    IN  IF ~(8 <= Len(password) /\ Len(password) <= 16)
        THEN "Password must be 8-16 characters long"
        ELSE IF ~Search(upper)
        THEN "Password must contain at least one uppercase letter"
        ELSE IF ~Search(lower)
        THEN "Password must contain at least one lowercase letter"
        ELSE IF ~Search(ALLOWED_SPECIALS)
        THEN "Password must contain at least one special character from: !@#$%^&*"
        ELSE IF \E i \in 1..Len(password) :
                    password[i] \notin upper \cup lower \cup Digits \cup ALLOWED_SPECIALS
        THEN "Password contains invalid characters"
        ELSE NoException

\* the passwords: up to MaxPrefix characters (an uppercase and a lowercase
\* letter, a digit, a special, a character that is not allowed, an
\* uppercase letter outside ASCII) followed by a run of one character, up
\* to MaxPassword characters in all
Passwords ==
    {prefix \o [i \in 1..n |-> pad] :
        prefix \in SeqsUpTo({"A", "a", "1", "!", "<", "U+00C9"}, MaxPrefix),
        pad \in {"a", "1"},
        n \in 0..(MaxPassword - MaxPrefix)}

InitPassword ==
    /\ pc = "password"
    /\ today = <<>>
    /\ invoice = NoResult
    /\ prepared = NoResult
    /\ totals = NoResult
    /\ raised = NoException
    /\ csvFile = NoResult
    /\ invoices = <<>>
    /\ data = NoResult
    /\ data0 = NoResult
    /\ valid = NoResult
    /\ MainIdle
    /\ users = {}
    /\ customers = {}
    /\ contracts = {}
    /\ \E password \in Passwords :
        response = Request("user", [password |-> password], "received", NoRaise, "",
                           [status |-> 0, detail |-> ""])

\* UserCreate.validate_password_field: a ValueError of validate_password
\* makes the request invalid, which is answered 422 with the message;
\* otherwise the request goes on to create_user
validate_password_field ==
    /\ response.at = "received"
    /\ \E message \in {ValidatePassword(response.body.password)} :
        response' =
            IF message # NoException
            THEN Request("user", response.body, "done",
                         [type |-> "ValueError", message |-> message], "",
                         [status |-> 422, detail |-> message])
            ELSE Request("user", response.body, "validated", NoRaise, "",
                         [status |-> 0, detail |-> ""])
    /\ UNCHANGED <<pc, today, invoice, prepared, totals, raised, csvFile, invoices, data, data0, valid, mainVars, users, customers, contracts>>

NextPassword == validate_password_field

SpecPassword == InitPassword /\ [][NextPassword]_vars

\* the number of characters of the password that are in the class
Count(password, class) ==
    Cardinality({i \in 1..Len(password) : password[i] \in class})

\* C23: a request goes on to the handler only if its password has 8 to 16
\* characters, an uppercase letter, a lowercase letter and a special
\* character of !@#$%^&*, and nothing but letters, digits and those
\* specials; otherwise it is answered 422 with the message of the first
\* rule, in that order, that the password violates.
C23_PasswordRule ==
    response.at # "received" =>
        LET password == response.body.password
            upper == {"A", "B", "C", "D", "E", "F", "G", "H", "I", "J", "K", "L", "M",
                      "N", "O", "P", "Q", "R", "S", "T", "U", "V", "W", "X", "Y", "Z"}
            lower == {"a", "b", "c", "d", "e", "f", "g", "h", "i", "j", "k", "l", "m",
                      "n", "o", "p", "q", "r", "s", "t", "u", "v", "w", "x", "y", "z"}
            violated == <<Len(password) < 8 \/ Len(password) > 16,
                          Count(password, upper) = 0,
                          Count(password, lower) = 0,
                          Count(password, ALLOWED_SPECIALS) = 0,
                          Count(password, upper \cup lower \cup Digits \cup ALLOWED_SPECIALS)
                            < Len(password)>>
            messages == <<"Password must be 8-16 characters long",
                          "Password must contain at least one uppercase letter",
                          "Password must contain at least one lowercase letter",
                          "Password must contain at least one special character from: !@#$%^&*",
                          "Password contains invalid characters">>
        IN  IF \E k \in 1..5 : violated[k]
            THEN /\ response.at = "done"
                 /\ response.status = 422
                 /\ \E k \in 1..5 :
                        /\ violated[k]
                        /\ \A j \in 1..(k - 1) : ~violated[j]
                        /\ response.detail = messages[k]
            ELSE response.at = "validated"

\* C23 witness: a password of 8 to 16 characters with an uppercase letter
\* that lacks both a lowercase letter and a special character was answered
\* 422 with the message about the lowercase letter.
C23_Witness ==
    /\ pc = "password"
    /\ response.at = "done"
    /\ response.status = 422
    /\ Len(response.body.password) = 8
    /\ response.body.password[1] = "A"
    /\ response.detail = "Password must contain at least one lowercase letter"
    /\ \A i \in 1..8 : response.body.password[i] \in {"A", "1"}

(***************************************************************************)
(* SpecRewrite: one run of process_json_to_pdf while another process may   *)
(* write the JSON file again.  The run keeps no lock on the file and       *)
(* generate_from_json opens it a second time (pdf_generator.py:319-320),   *)
(* so the other process can act after validate_json_structure returned     *)
(* and before the file is read for rendering.                              *)
(***************************************************************************)
MaxRewritten == 2   \* records of a file in SpecRewrite

\* records the renderer accepts: two that pass validate_single_invoice and
\* two that lack a required field
RewritePool ==
    {FullRecord(JList(<<FullItem>>)),
     AmountRecord(SanLian, <<AmountItem(<<>>), AmountItem(None)>>),
     Without(FullRecord(JList(<<FullItem>>)), {"notes"}),
     Without(FullRecord(JList(<<FullItem>>)), {"customer_name", "notes"})}

RewriteFiles == {JsonDump(d) : d \in DocumentsFrom(RewritePool, MaxRewritten)}

InitRewrite ==
    /\ pc = "start"
    /\ today \in Dates
    /\ entry = "json"
    /\ jsonFile \in {NoResult} \cup RewriteFiles
    /\ csvFile = NoResult
    /\ invoice = NoResult
    /\ prepared = NoResult
    /\ totals = NoResult
    /\ raised = NoException
    /\ invoices = <<>>
    /\ data = NoResult
    /\ data0 = NoResult
    /\ valid = NoResult
    /\ env = NoResult
    /\ info = NoResult
    /\ html = NoMarkup
    /\ output = NoResult
    /\ result = NoResult
    /\ BackendIdle

\* another process writes the file between the validation (main.py:96) and
\* the call of generate_from_json (main.py:122)
Rewrite ==
    /\ pc \in {"validated", "informed"}
    /\ jsonFile' \in RewriteFiles \ {jsonFile}
    /\ UNCHANGED <<pc, today, invoice, prepared, totals, raised, csvFile,
                   invoices, data, data0, valid, entry, env, info, html,
                   output, result, backendVars>>

NextRewrite == LoadJson \/ ValidateJson \/ Info \/ Generate \/ Rewrite

SpecRewrite == InitRewrite /\ [][NextRewrite]_vars

\* the documents generate_from_json renders for a loaded document
DocumentsOf(doc) ==
    [i \in 1..Len(doc.records) |->
        Document(PrepareInvoiceData(doc.records[i], today))]

\* C28: the documents process_json_to_pdf has rendered are those of the
\* records that passed validate_json_structure, also when the file was
\* written again after the validation.
C28_RenderedIsValidated ==
    (pc = "done" /\ html # NoMarkup)
    => /\ valid.result
       /\ SelectSeq(html, IsDocument) = DocumentsOf(data)

(***************************************************************************)
(* SpecIntegrity: the calls that add and remove customers and contracts,   *)
(* interleaving at the await between the lookup and the commit of each.    *)
(* The tables are those of the PostgreSQL database of session.py, which    *)
(* enforces the foreign key of contract.customer_id.                       *)
(***************************************************************************)
\* the mutation of C30: the database does not enforce the foreign key
Unreferenced(customer_id, table) == {}

\* ForeignKey("customer.id") of contract.customer_id: the contracts that
\* refer to the customer
Referencing(customer_id, table) == {k \in table : k.customer_id = customer_id}

\* CustomerService.delete(customer_id): the lookup by id, which returns
\* False when no customer has the id; then the delete statement and the
\* commit, which the foreign key refuses while a contract refers to the
\* customer
DeleteCustomer(r) ==
    /\ \/ /\ response[r].at = "done"
          /\ \E customer_id \in CustomerIds :
                response' = [response EXCEPT ![r] =
                    IF StoredCustomer(customer_id, customers) = {}
                    THEN Request("delete customer", [customer_id |-> customer_id], "done",
                                 NoRaise, "False", [status |-> 0, detail |-> <<>>])
                    ELSE Request("delete customer", [customer_id |-> customer_id], "checked",
                                 NoRaise, "", [status |-> 0, detail |-> <<>>])]
          /\ UNCHANGED customers
       \/ /\ response[r].at = "checked"
          /\ response[r].op = "delete customer"
          /\ IF Referencing(response[r].body.customer_id, contracts) # {}
             THEN /\ response' = [response EXCEPT ![r] =
                        Request("delete customer", response[r].body, "done",
                                [type |-> "IntegrityError", message |-> <<>>], "",
                                [status |-> 0, detail |-> <<>>])]
                  /\ UNCHANGED customers
             ELSE /\ response' = [response EXCEPT ![r] =
                        Request("delete customer", response[r].body, "done",
                                NoRaise, "True", [status |-> 0, detail |-> <<>>])]
                  /\ customers' = customers \ {response[r].body.customer_id}
    /\ UNCHANGED <<pc, today, invoice, prepared, totals, raised, csvFile, invoices, data, data0, valid, mainVars, users, contracts>>

\* DELETE /api/v1/contracts/{contract_id}: ContractService.delete looks the
\* contract up and returns False when there is none, which delete_contract
\* answers with 404; then the delete statement and the commit, and 204
DeleteContract(r) ==
    /\ \/ /\ response[r].at = "done"
          /\ \E contract_id \in ContractIds :
                response' = [response EXCEPT ![r] =
                    IF {k \in contracts : k.id = contract_id} = {}
                    THEN Request("delete contract", [contract_id |-> contract_id], "done",
                                 NoRaise, "False", [status |-> 404, detail |-> <<>>])
                    ELSE Request("delete contract", [contract_id |-> contract_id], "checked",
                                 NoRaise, "", [status |-> 0, detail |-> <<>>])]
          /\ UNCHANGED contracts
       \/ /\ response[r].at = "checked"
          /\ response[r].op = "delete contract"
          /\ response' = [response EXCEPT ![r] =
                Request("delete contract", response[r].body, "done",
                        NoRaise, "True", [status |-> 204, detail |-> <<>>])]
          /\ contracts' = {k \in contracts : k.id # response[r].body.contract_id}
    /\ UNCHANGED <<pc, today, invoice, prepared, totals, raised, csvFile, invoices, data, data0, valid, mainVars, users, customers>>

NextIntegrity ==
    \E r \in Requests :
        \/ CreateCustomer(r)
        \/ DeleteCustomer(r)
        \/ CreateContractCheck(r)
        \/ CreateContractCommit(r)
        \/ DeleteContract(r)

SpecIntegrity == InitBackend /\ [][NextIntegrity]_vars

====
